---------------------------- MODULE Spec2Model ----------------------------
(***************************************************************************)
(* The undo/redo engine of the sprite editor (UndoHistory, its two         *)
(* UndoStreams and the chunk encoders/inverters of undo_history.cpp).      *)
(*                                                                         *)
(* The model keeps the engine's own state (the two streams with their      *)
(* running memory size, the label, the enabled flag, diffCount/diffSaved), *)
(* the live document the chunks refer to (a sprite with its size, an image *)
(* with its type and its pixels) and the ObjectsContainer.  One action     *)
(* stands for one call of the public interface.                            *)
(*                                                                         *)
(* Stream orientation: pushChunk inserts at the head, popChunk(false)      *)
(* removes the head (the newest chunk) and popChunk(true) the tail (the    *)
(* oldest), so index 1 of a chunk sequence is the most recently pushed.    *)
(***************************************************************************)
EXTENDS Integers, Sequences, FiniteSets, TLC

(***************************************************************************)
(* Bounds of the model                                                     *)
(***************************************************************************)
\* recording calls (undo_open, undo_close, undo_<action>) along one behaviour
MaxRecords == 5
\* nesting depth of undo_open calls the editor issues
MaxDepth == 2
\* sprite widths the editor resizes to: 1..MaxDim (the height is MaxDim + 1
\* minus the width)
MaxDim == 2
\* configured "Options/UndoSizeLimit" values, in MiB: 1..MaxLimitMiB
MaxLimitMiB == 2
\* the image: ImageWidth pixels wide, NBands bands of BandRows rows each
ImageWidth == 512
BandRows == 512
NBands == 1
\* pixel colours the editor paints with: 1..MaxColor (0 is the initial colour)
MaxColor == 1
\* cels of an image layer of a recorded subtree: 0..MaxCels
MaxCels == 2
\* palette entries (256 in the program): the indices are 0..PaletteSize-1
PaletteSize == 3
\* undo_remap_palette calls along one behaviour
MaxRemaps == 2
\* recording calls along one behaviour of a document that drifts
MaxDriftRecords == 2
\* colours the editor gives palette entries: 0..MaxEntry
MaxEntry == 2
\* recording calls along one behaviour in which palettes are added and
\* removed
MaxPaletteRecords == 2
\* undo_set_palette_colors calls along one behaviour
MaxColorRecords == 1
\* the image that is flipped: TileWidth x TileHeight pixels
TileWidth == 3
TileHeight == 2
\* undo_flip calls along one behaviour
MaxFlips == 2

(***************************************************************************)
(* Program constants                                                       *)
(***************************************************************************)
\* enum { DO_UNDO, DO_REDO }
DO_UNDO == 0
DO_REDO == 1

\* Undo types; undo_actions[type].name is the name written here (the table
\* is "in the same order as in UNDO_TYPEs", DECL_UNDO_ACTION stringifies it)
UNDO_TYPE_OPEN == "open"
UNDO_TYPE_CLOSE == "close"
UNDO_TYPE_IMAGE == "image"
UNDO_TYPE_SET_SIZE == "set_size"
UNDO_TYPE_DATA == "data"
UNDO_TYPE_ADD_LAYER == "add_layer"
UNDO_TYPE_ADD_IMAGE == "add_image"
UNDO_TYPE_REMOVE_IMAGE == "remove_image"
UNDO_TYPE_REMAP_PALETTE == "remap_palette"
UNDO_TYPE_REMOVE_LAYER == "remove_layer"
UNDO_TYPE_FLIP == "flip"
UNDO_TYPE_ADD_PALETTE == "add_palette"
UNDO_TYPE_REMOVE_PALETTE == "remove_palette"
UNDO_TYPE_SET_PALETTE_COLORS == "set_palette_colors"

\* the null pointer (a null label, a failed object lookup)
NULL == "NULL"

\* sizeof of the chunk structures (LP64: int, int, pointer; uint32/uint16
\* fields, padded to the pointer's alignment)
SizeofUndoChunk == 16
SizeofUndoChunkImage == 32
SizeofUndoChunkSetSize == 32
SizeofUndoChunkData == 32
SizeofUndoChunkAddLayer == 24
SizeofUndoChunkAddImage == 24
SizeofUndoChunkRemoveImage == 24
SizeofUndoChunkRemapPalette == 288
SizeofUndoChunkRemoveLayer == 24
SizeofUndoChunkAddPalette == 24
SizeofUndoChunkFlip == 32
SizeofUndoChunkRemovePalette == 24
SizeofUndoChunkSetPaletteColors == 32

\* get_config_int("Options", "UndoSizeLimit", 8)*1024*1024
MiB == 1024 * 1024

\* image types and their bytes per pixel (image_line_size)
IMAGE_RGB == "RGB"
IMAGE_GRAYSCALE == "GRAYSCALE"
IMAGE_INDEXED == "INDEXED"

ImgTypes == {IMAGE_RGB, IMAGE_GRAYSCALE, IMAGE_INDEXED}

\* labels the editor gives its actions with setLabel
Labels == {"Draw"}

VARIABLES
  m_undoStream,   \* [chunks, size]: the undo stream and its m_size
  m_redoStream,   \* [chunks, size]: the redo stream and its m_size
  m_label,        \* const char* m_label (NULL or a label)
  m_enabled,      \* m_enabled
  m_diffCount,    \* m_diffCount
  m_diffSaved,    \* m_diffSaved
  doc,            \* the live document: [sprite, image]
  objects,        \* ObjectsContainer: object -> ObjectId (0: not registered)
  undoSizeLimit,  \* the configured Options/UndoSizeLimit, in MiB
  openDepth,      \* editor: undo_open calls not yet closed by undo_close
  lastCall,       \* history: the last completed call, [op, result]
  nRecords,       \* history: recording calls made so far
  nEntries,       \* history: top-level actions recorded so far
  evicted,        \* history: has discardTail dropped chunks so far
  docRecorded,    \* history: the document at the newest end of the timeline
  sinceMark       \* history: calls since markSavedState, [phase, pending, lost]

vars == <<m_undoStream, m_redoStream, m_label, m_enabled, m_diffCount,
          m_diffSaved, doc, objects, undoSizeLimit, openDepth, lastCall,
          nRecords, nEntries, evicted, docRecorded, sinceMark>>


(***************************************************************************)
(* UndoStream (undo_stream.h): a list of chunks and the sum of their sizes *)
(***************************************************************************)
UndoStream == [chunks |-> <<>>, size |-> 0]

empty(stream) == stream.chunks = <<>>

getMemSize(stream) == stream.size

\* Variant, to show what C12 detects: the push does not count the chunk.
pushChunk_NotCounted(stream, chunk) ==
  [chunks |-> <<chunk>> \o stream.chunks, size |-> stream.size]

\* pushChunk: the chunk becomes the head of the list, m_size grows by its size
pushChunk(stream, chunk) ==
  [chunks |-> <<chunk>> \o stream.chunks, size |-> stream.size + chunk.size]

\* popChunk(tail) on a non-empty stream: the chunk removed (the tail one, or
\* the head one) and the stream left; on an empty stream popChunk returns
\* NULL, which the callers test with empty() before they use the result
popChunk(stream, tail) ==
  LET n == Len(stream.chunks)
      chunk == IF tail THEN stream.chunks[n] ELSE stream.chunks[1]
      rest == IF tail THEN SubSeq(stream.chunks, 1, n - 1)
              ELSE SubSeq(stream.chunks, 2, n)
  IN [chunk |-> chunk,
      stream |-> [chunks |-> rest, size |-> stream.size - chunk.size]]

\* clear: frees every chunk and resets m_size
clear(stream) == [chunks |-> <<>>, size |-> 0]

(***************************************************************************)
(* ObjectsContainer: object <-> ObjectId, 0 meaning "no object"            *)
(***************************************************************************)
\* the blocks a Palette can be allocated in, in the allocator's order
PaletteBlocks == <<"palette0", "palette1", "palette2">>

\* the objects the container can hold: their addresses
ObjRefs ==
  {"sprite", "image", "stock", "tile"}
    \cup {PaletteBlocks[k] : k \in DOMAIN PaletteBlocks}

\* Ids are not reused: a removed object keeps its id, negated, so that the
\* id resolves to nothing and is never handed out again.
idOf(objs, obj) == IF objs[obj] < 0 THEN 0 - objs[obj] ELSE objs[obj]

\* the largest id handed out so far
lastId(objs) == CHOOSE n \in 0..Cardinality(ObjRefs) :
                  /\ \A o \in ObjRefs : idOf(objs, o) <= n
                  /\ (n = 0 \/ \E o \in ObjRefs : idOf(objs, o) = n)

\* addObject: the id of a registered object, a fresh id otherwise
addObject(objs, obj) ==
  IF objs[obj] # 0 THEN objs ELSE [objs EXCEPT ![obj] = lastId(objs) + 1]

\* removeObject: the id resolves to nothing from now on
removeObject(objs, id) ==
  [o \in ObjRefs |-> IF objs[o] = id /\ id > 0 THEN 0 - id ELSE objs[o]]

\* insertObject: the object is registered under the id given
insertObject(objs, id, obj) == [objs EXCEPT ![obj] = id]

\* getObject / getObjectT: the object registered under id, or NULL
getObject(objs, id) ==
  IF id # 0 /\ \E o \in ObjRefs : objs[o] = id
  THEN CHOOSE o \in ObjRefs : objs[o] = id
  ELSE NULL

(***************************************************************************)
(* The live document (raster types)                                        *)
(***************************************************************************)
\* bytes per pixel of an image type
BytesPerPixel(imgtype) ==
  CASE imgtype = IMAGE_RGB -> 4
    [] imgtype = IMAGE_GRAYSCALE -> 2
    [] imgtype = IMAGE_INDEXED -> 1

\* image_line_size(image, width): the bytes of `width` pixels of the image
image_line_size(image, width) == BytesPerPixel(image.imgtype) * width

\* the ObjectId of the sprite's root folder; the layers of a document carry
\* the ObjectIds they are registered under
RootFolderId == 10

\* The document the editor starts from.  indexed[frame] is the palette index
\* of the pixels of the frame's indexed image; stock[i + 1] is the image the
\* sprite's stock holds at index i, or NULL.  The image's rows are kept band by
\* band: line[b] is the colour of every pixel of the BandRows rows of band b.
InitDoc ==
  [sprite |-> [width |-> 1, height |-> MaxDim],
   image |-> [imgtype |-> IMAGE_RGB, w |-> ImageWidth, h |-> NBands * BandRows,
              line |-> [b \in 1..NBands |-> 0]],
   folder |-> [id |-> RootFolderId, layers |-> <<>>],
   indexed |-> [frame \in 0..1 |-> frame],
   stock |-> <<"image">>,
   tile |-> [imgtype |-> IMAGE_INDEXED, w |-> TileWidth, h |-> TileHeight,
             pixel |-> [y \in 0..(TileHeight - 1) |->
                          [x \in 0..(TileWidth - 1) |-> y * TileWidth + x]]],
   frame |-> 0,
   palettes |-> [frame \in 0..1 |-> PaletteBlocks[frame + 1]],
   heap |-> [p \in {PaletteBlocks[k] : k \in DOMAIN PaletteBlocks} |->
               [frame |-> IF p = "palette1" THEN 1 ELSE 0,
                entry |-> [c \in 1..PaletteSize |->
                             IF p = "palette1" THEN 1 ELSE 0]]],
   alive |-> {"palette0", "palette1"}]

(***************************************************************************)
(* The state the chunk code works on, gathered in one record: both         *)
(* streams, the history's label and diffCount, the objects container and   *)
(* the live document.  `entry` is history only: the number of the top-level *)
(* action a chunk was recorded for, stamped on every chunk and handed on to *)
(* its inverse; `raised` is the exception that ended the call, if any;     *)
(* `turns` counts the turns of the loops of runUndo and discardTail that   *)
(* found a chunk, `discards` the discardTail calls of updateUndo.          *)
(***************************************************************************)
NoError == "none"
UndoException == "UndoException"

\* What reading a member through a null pointer can end in (undefined
\* behaviour): the process is stopped by a fault, or the read yields some
\* value, the type test that follows it fails and the exception is thrown.
SIGSEGV == "SIGSEGV"
NullDeref == {SIGSEGV, UndoException}

\* What writing a member through a null pointer can end in (undefined
\* behaviour): the process is stopped by a fault, or the write is lost and
\* the call goes on.
NullStore == {SIGSEGV, NoError}

This ==
  [undo |-> m_undoStream, redo |-> m_redoStream, label |-> m_label,
   diffCount |-> m_diffCount, objects |-> objects, doc |-> doc,
   entry |-> IF openDepth = 0 THEN nEntries + 1 ELSE nEntries,
   raised |-> NoError, malloc |-> TRUE, deref |-> SIGSEGV,
   store |-> SIGSEGV, enabled |-> m_enabled, turns |-> 0, discards |-> 0]

\* UndoHistory::getLabel / setLabel
getLabel(self) == self.label

\* Variant, to show what C18 detects: the label is left as it was.
setLabel_Keep(self, label) == self

setLabel(self, label) == [self EXCEPT !.label = label]

\* UndoHistory::getNextUndoLabel / getNextRedoLabel: chunk = *begin()
getNextUndoLabel(self) == self.undo.chunks[1].label

getNextRedoLabel(self) == self.redo.chunks[1].label

(***************************************************************************)
(* Helper routines for UndoChunk                                           *)
(***************************************************************************)
\* undo_chunk_new: a chunk of the type and size, labelled with the history's
\* label or, when that is NULL, with the action's name, pushed on the stream.
\* `fields` are the members the caller fills in after the call.
\* Variant, to show what C17 detects: the label is always the kind's name.
undo_chunk_new_KindName(self, stream, type, size, fields) ==
  LET head == [type |-> type, size |-> size, label |-> type,
               entry |-> self.entry]
  IN IF self.malloc
     THEN [self EXCEPT ![stream] = pushChunk(self[stream], head @@ fields)]
     ELSE self

undo_chunk_new(self, stream, type, size, fields) ==
  LET head == [type |-> type, size |-> size,
               label |-> IF getLabel(self) # NULL THEN getLabel(self) ELSE type,
               entry |-> self.entry]
  IN IF self.malloc
     THEN [self EXCEPT ![stream] = pushChunk(self[stream], head @@ fields)]
     ELSE self

(***************************************************************************)
(* "open" and "close": no data                                             *)
(***************************************************************************)
chunk_open_new(self, stream) ==
  undo_chunk_new(self, stream, UNDO_TYPE_OPEN, SizeofUndoChunk, <<>>)

chunk_close_new(self, stream) ==
  undo_chunk_new(self, stream, UNDO_TYPE_CLOSE, SizeofUndoChunk, <<>>)

\* Variant, to show what C13 detects: the inverse of an OPEN is an OPEN.
chunk_open_invert_Same(self, stream, chunk) == chunk_open_new(self, stream)

chunk_open_invert(self, stream, chunk) == chunk_close_new(self, stream)

\* Variant, to show what C26 detects: the inverse of a CLOSE is a CLOSE.
chunk_close_invert_Same(self, stream, chunk) == chunk_close_new(self, stream)

chunk_close_invert(self, stream, chunk) == chunk_open_new(self, stream)

(***************************************************************************)
(* ASSERT (base library): a failed assertion ends the call with a failure  *)
(* before the statement that follows it is run.                            *)
(***************************************************************************)
AssertionFailed == "assertion failed"

ASSERT(self, condition) ==
  IF condition THEN self ELSE [self EXCEPT !.raised = AssertionFailed]

(***************************************************************************)
(* "data": object ID, field address offset, field data size, the bytes     *)
(* The sprite's memory is its width and its height, one byte each.         *)
(***************************************************************************)
BytesOf(object) == <<object.width, object.height>>

\* the `size` bytes at `offset` of the object
FieldData(object, offset, size) ==
  SubSeq(BytesOf(object), offset + 1, offset + size)

\* memcpy(field, data, size)
PutField(object, offset, data) ==
  LET bytes == [k \in 1..2 |->
                  IF offset < k /\ k <= offset + Len(data)
                  THEN data[k - offset] ELSE BytesOf(object)[k]]
  IN [object EXCEPT !.width = bytes[1], !.height = bytes[2]]

\* Variant, to show what C21 detects: the field size is not asserted.
chunk_data_new_Unchecked(self, stream, object, fieldOffset, fieldSize) ==
  LET objs == addObject(self.objects, object)
      new == undo_chunk_new(self, stream, UNDO_TYPE_DATA,
                            SizeofUndoChunkData + fieldSize,
                            [objectId |-> objs[object],
                             fieldOffset |-> fieldOffset,
                             fieldSize |-> fieldSize,
                             fieldData |-> FieldData(self.doc[object],
                                                     fieldOffset, fieldSize)])
  IN IF self.malloc THEN [new EXCEPT !.objects = objs]
     ELSE [new EXCEPT !.objects = objs, !.raised = self.store]

chunk_data_new(self, stream, object, fieldOffset, fieldSize) ==
  LET checked == ASSERT(self, fieldSize >= 1)
      objs == addObject(self.objects, object)
      new == undo_chunk_new(self, stream, UNDO_TYPE_DATA,
                            SizeofUndoChunkData + fieldSize,
                            [objectId |-> objs[object],
                             fieldOffset |-> fieldOffset,
                             fieldSize |-> fieldSize,
                             fieldData |-> FieldData(self.doc[object],
                                                     fieldOffset, fieldSize)])
  IN IF checked.raised # NoError THEN checked
     ELSE IF self.malloc THEN [new EXCEPT !.objects = objs]
     ELSE [new EXCEPT !.objects = objs, !.raised = self.store]

\* Variant, to show what C24 detects: the old bytes are copied back before
\* the current ones are saved.
chunk_data_invert_CopyFirst(self, stream, chunk) ==
  LET object == getObject(self.objects, chunk.objectId)
  IN IF object = NULL
     THEN [self EXCEPT !.raised = SIGSEGV]
     ELSE chunk_data_new([self EXCEPT !.doc[object] =
                            PutField(self.doc[object], chunk.fieldOffset,
                                     chunk.fieldData)],
                         stream, object, chunk.fieldOffset, chunk.fieldSize)

\* The lookup is not tested: on a NULL object the memcpy reads from the
\* offset alone and the process is stopped by the fault.
chunk_data_invert(self, stream, chunk) ==
  LET object == getObject(self.objects, chunk.objectId)
  IN IF object = NULL
     THEN [self EXCEPT !.raised = SIGSEGV]
     ELSE LET saved == chunk_data_new(self, stream, object, chunk.fieldOffset,
                                      chunk.fieldSize)
          IN IF saved.raised # NoError THEN saved
             ELSE [saved EXCEPT !.doc[object] =
                     PutField(saved.doc[object], chunk.fieldOffset,
                              chunk.fieldData)]

(***************************************************************************)
(* "image": image ID, image type, x, y, w, h, the rows of the rectangle    *)
(***************************************************************************)
\* the rows y..y+h-1 of the image, band by band
ImageRows(image, y, h) ==
  [v \in 1..(h \div BandRows) |-> image.line[(y \div BandRows) + v]]

\* When undo_chunk_new returns NULL, chunk->image_id = ... writes through
\* the null pointer.
chunk_image_new(self, stream, image, x, y, w, h) ==
  LET img == self.doc[image]
      checked == ASSERT(ASSERT(self, w >= 1 /\ h >= 1),
                        x >= 0 /\ y >= 0 /\ x + w <= img.w /\ y + h <= img.h)
      size == image_line_size(img, w)
      objs == addObject(self.objects, image)
      new == undo_chunk_new(self, stream, UNDO_TYPE_IMAGE,
                            SizeofUndoChunkImage + size * h,
                            [image_id |-> objs[image], imgtype |-> img.imgtype,
                             x |-> x, y |-> y, w |-> w, h |-> h,
                             data |-> ImageRows(img, y, h)])
  IN IF checked.raised # NoError THEN checked
     ELSE IF self.malloc THEN [new EXCEPT !.objects = objs]
     ELSE [new EXCEPT !.objects = objs, !.raised = self.store]

\* the image with the rows y..y+h-1 overwritten by `data`
PutRows(image, y, h, data) ==
  [image EXCEPT !.line =
     [b \in 1..NBands |->
        IF (y \div BandRows) < b /\ b <= (y + h) \div BandRows
        THEN data[b - (y \div BandRows)]
        ELSE image.line[b]]]

\* Variant, to show what C14 detects: the rows are restored without the
\* current ones being saved.
chunk_image_invert_NoBackup(self, stream, chunk) ==
  LET image == getObject(self.objects, chunk.image_id)
  IN IF image = NULL
     THEN [self EXCEPT !.raised = self.deref]
     ELSE [self EXCEPT !.doc[image] =
             PutRows(self.doc[image], chunk.y, chunk.h, chunk.data)]

chunk_image_invert(self, stream, chunk) ==
  LET image == getObject(self.objects, chunk.image_id)
  IN IF image = NULL
     THEN [self EXCEPT !.raised = self.deref]
     ELSE IF self.doc[image].imgtype # chunk.imgtype
     THEN [self EXCEPT !.raised = UndoException]
     ELSE LET saved == chunk_image_new(self, stream, image,
                                       chunk.x, chunk.y, chunk.w, chunk.h)
          IN [saved EXCEPT !.doc[image] =
                PutRows(saved.doc[image], chunk.y, chunk.h, chunk.data)]

(***************************************************************************)
(* "set_size": sprite ID, width, height                                    *)
(***************************************************************************)
chunk_set_size_new(self, stream, sprite) ==
  LET objs == addObject(self.objects, sprite)
      new == undo_chunk_new(self, stream, UNDO_TYPE_SET_SIZE,
                            SizeofUndoChunkSetSize,
                            [sprite_id |-> objs[sprite],
                             width |-> self.doc[sprite].width,
                             height |-> self.doc[sprite].height])
  IN IF self.malloc THEN [new EXCEPT !.objects = objs]
     ELSE [new EXCEPT !.objects = objs, !.raised = self.store]

\* Variant, to show what C1 detects: the size is restored before the current
\* one is saved, so the inverse chunk holds the restored size.
chunk_set_size_invert_RestoreFirst(self, stream, chunk) ==
  LET sprite == getObject(self.objects, chunk.sprite_id)
  IN IF sprite # NULL
     THEN chunk_set_size_new(
            [self EXCEPT !.doc[sprite].width = chunk.width,
                         !.doc[sprite].height = chunk.height],
            stream, sprite)
     ELSE self

chunk_set_size_invert(self, stream, chunk) ==
  LET sprite == getObject(self.objects, chunk.sprite_id)
  IN IF sprite # NULL
     THEN LET saved == chunk_set_size_new(self, stream, sprite)
          IN [saved EXCEPT !.doc[sprite].width = chunk.width,
                           !.doc[sprite].height = chunk.height]
     ELSE self

(***************************************************************************)
(* Raw data: the bytes write_raw_* lay down and read_raw_* parse.  A buffer *)
(* is a sequence of bytes, p the index of the next byte to read.  A byte    *)
(* read beyond the buffer is out of bounds: `oob` records that it happened  *)
(* and the byte is taken as WildByte.                                       *)
(***************************************************************************)
WildByte == 0

\* write_raw_uint8 / uint16 / uint32 / int16 (little endian)
write_raw_uint8(src) == <<src % 256>>

write_raw_uint16(src) == <<src % 256, (src \div 256) % 256>>

write_raw_uint32(src) ==
  <<src % 256, (src \div 256) % 256, (src \div 65536) % 256,
    (src \div 16777216) % 256>>

write_raw_int16(src) == write_raw_uint16((src + 65536) % 65536)

ByteAt(raw, p) == IF p \in DOMAIN raw THEN raw[p] ELSE WildByte

read_raw_uint8(raw, p) == ByteAt(raw, p)

read_raw_uint16(raw, p) == ByteAt(raw, p) + 256 * ByteAt(raw, p + 1)

read_raw_uint32(raw, p) ==
  ByteAt(raw, p) + 256 * ByteAt(raw, p + 1) + 65536 * ByteAt(raw, p + 2)
    + 16777216 * ByteAt(raw, p + 3)

read_raw_int16(raw, p) ==
  LET word == read_raw_uint16(raw, p)
  IN IF word >= 32768 THEN word - 65536 ELSE word

\* read_raw_data(dst, size)
read_raw_data(raw, p, size) == [k \in 1..size |-> ByteAt(raw, p + k - 1)]

\* the bytes of a sequence of byte strings, one after the other
RECURSIVE Flatten(_)
Flatten(parts) ==
  IF parts = <<>> THEN <<>> ELSE Head(parts) \o Flatten(Tail(parts))

\* the C string at the start of the bytes: up to the first 0
RECURSIVE CString(_)
CString(bytes) ==
  IF bytes = <<>> \/ Head(bytes) = 0 THEN <<>>
  ELSE <<Head(bytes)>> \o CString(Tail(bytes))

\* the numbers of the image types and of the layer types in the raw data
ImgTypeCode(imgtype) ==
  CASE imgtype = IMAGE_RGB -> 0
    [] imgtype = IMAGE_GRAYSCALE -> 1
    [] imgtype = IMAGE_INDEXED -> 2

ImgTypeOf(code) ==
  IF code \in {ImgTypeCode(t) : t \in ImgTypes}
  THEN CHOOSE t \in ImgTypes : ImgTypeCode(t) = code
  ELSE NULL

GFXOBJ_LAYER_IMAGE == 2
GFXOBJ_LAYER_FOLDER == 3

(***************************************************************************)
(* Raw image data: image ID, image type, w, h, mask colour, the lines.     *)
(* An image of a layer is [id, imgtype, w, h, mask_color, line], line[c]   *)
(* the bytes of row c.                                                     *)
(***************************************************************************)
write_raw_image(image) ==
  write_raw_uint32(image.id) \o write_raw_uint8(ImgTypeCode(image.imgtype))
    \o write_raw_uint16(image.w) \o write_raw_uint16(image.h)
    \o write_raw_uint32(image.mask_color) \o Flatten(image.line)

get_raw_image_size(image) ==
  4 + 1 + 2 + 2 + 4 + BytesPerPixel(image.imgtype) * image.w * image.h

\* a null Image*, Layer*
NoImage == [id |-> 0]

NoLayer == [id |-> 0, type |-> 0]

\* NULL when the image ID is 0
read_raw_image(raw, p) ==
  LET image_id == read_raw_uint32(raw, p)
      imgtype == ImgTypeOf(read_raw_uint8(raw, p + 4))
      width == read_raw_uint16(raw, p + 5)
      height == read_raw_uint16(raw, p + 7)
      mask_color == read_raw_uint32(raw, p + 9)
      size == BytesPerPixel(imgtype) * width
  IN IF image_id = 0 \/ imgtype = NULL THEN NoImage
     ELSE [id |-> image_id, imgtype |-> imgtype, w |-> width, h |-> height,
           mask_color |-> mask_color,
           line |-> [c \in 1..height |->
                       read_raw_data(raw, p + 13 + (c - 1) * size, size)]]

(***************************************************************************)
(* Raw cel data: cel ID, frame, image index, x, y, opacity.  A cel is      *)
(* [id, frame, image, x, y, opacity, stock]: `stock` is the image the       *)
(* sprite's stock holds at the cel's image index.                          *)
(***************************************************************************)
write_raw_cel(cel) ==
  write_raw_uint32(cel.id) \o write_raw_uint16(cel.frame)
    \o write_raw_uint16(cel.image) \o write_raw_int16(cel.x)
    \o write_raw_int16(cel.y) \o write_raw_uint16(cel.opacity)

get_raw_cel_size == 4 + 2 * 5

read_raw_cel(raw, p) ==
  [id |-> read_raw_uint32(raw, p), frame |-> read_raw_uint16(raw, p + 4),
   image |-> read_raw_uint16(raw, p + 6), x |-> read_raw_int16(raw, p + 8),
   y |-> read_raw_int16(raw, p + 10),
   opacity |-> read_raw_uint16(raw, p + 12), stock |-> NoImage]

(***************************************************************************)
(* Raw layer data: layer ID, name length, name, flags, type, sprite ID and, *)
(* for an image layer, its cels (each followed by a "has image" byte and    *)
(* its image), for a folder, its sub-layers.  A layer is                    *)
(* [id, name, flags, type, sprite, cels, layers].                           *)
(***************************************************************************)
RECURSIVE write_raw_layer(_)
write_raw_layer(layer) ==
  write_raw_uint32(layer.id) \o write_raw_uint16(Len(layer.name))
    \o layer.name \o write_raw_uint8(layer.flags)
    \o write_raw_uint16(layer.type) \o write_raw_uint32(layer.sprite)
    \o (CASE layer.type = GFXOBJ_LAYER_IMAGE ->
               write_raw_uint16(Len(layer.cels))
                 \o Flatten([c \in DOMAIN layer.cels |->
                      write_raw_cel(layer.cels[c]) \o write_raw_uint8(1)
                        \o write_raw_image(layer.cels[c].stock)])
          [] layer.type = GFXOBJ_LAYER_FOLDER ->
               write_raw_uint16(Len(layer.layers))
                 \o Flatten([c \in DOMAIN layer.layers |->
                      write_raw_layer(layer.layers[c])])
          [] OTHER -> <<>>)

\* the sum of the numbers of a sequence
RECURSIVE Sum(_)
Sum(sizes) == IF sizes = <<>> THEN 0 ELSE Head(sizes) + Sum(Tail(sizes))

\* Variant, to show what C40 detects: the size of what write_raw_layer
\* writes, with no byte for a blend mode.
RECURSIVE get_raw_layer_size_Written(_)
get_raw_layer_size_Written(layer) ==
  4 + 2 + Len(layer.name) + 1 + 2 + 4
    + (CASE layer.type = GFXOBJ_LAYER_IMAGE ->
              2 + Sum([c \in DOMAIN layer.cels |->
                         get_raw_cel_size + 1
                           + IF layer.cels[c].stock = NoImage THEN 0
                             ELSE get_raw_image_size(layer.cels[c].stock)])
         [] layer.type = GFXOBJ_LAYER_FOLDER ->
              2 + Sum([c \in DOMAIN layer.layers |->
                         get_raw_layer_size_Written(layer.layers[c])])
         [] OTHER -> 0)

RECURSIVE get_raw_layer_size(_)
get_raw_layer_size(layer) ==
  4 + 2 + Len(layer.name) + 1 + 2 + 4
    + (CASE layer.type = GFXOBJ_LAYER_IMAGE ->
              1 + 2
                + Sum([c \in DOMAIN layer.cels |->
                         get_raw_cel_size + 1
                           + IF layer.cels[c].stock = NoImage THEN 0
                             ELSE get_raw_image_size(layer.cels[c].stock)])
         [] layer.type = GFXOBJ_LAYER_FOLDER ->
              2 + Sum([c \in DOMAIN layer.layers |->
                         get_raw_layer_size(layer.layers[c])])
         [] OTHER -> 0)

\* the loop over the cels of an image layer: the cels read and whether a
\* byte out of bounds, or an image that is NULL, was met
RECURSIVE ReadCels(_, _, _, _)
ReadCels(raw, p, cels, read) ==
  IF cels = 0 THEN [cels |-> read, oob |-> FALSE]
  ELSE IF p + get_raw_cel_size > Len(raw) THEN [cels |-> read, oob |-> TRUE]
  ELSE
    LET cel == read_raw_cel(raw, p)
        has_image == read_raw_uint8(raw, p + get_raw_cel_size)
        image == read_raw_image(raw, p + get_raw_cel_size + 1)
    IN IF has_image = 0
       THEN ReadCels(raw, p + get_raw_cel_size + 1, cels - 1,
                     Append(read, cel))
       ELSE IF image = NoImage THEN [cels |-> read, oob |-> TRUE]
       ELSE LET rest == ReadCels(raw,
                                 p + get_raw_cel_size + 1
                                   + get_raw_image_size(image),
                                 cels - 1,
                                 Append(read, [cel EXCEPT !.stock = image]))
            IN [rest EXCEPT !.oob =
                  @ \/ p + get_raw_cel_size + get_raw_image_size(image)
                         > Len(raw)]

\* read_raw_layer: the layer (NULL for a type that is neither an image layer
\* nor a folder) and whether a byte out of bounds was read.  The caller
\* steps over a sub-layer by get_raw_layer_size of what was read.
RECURSIVE read_raw_layer(_, _)
RECURSIVE ReadLayers(_, _, _, _)
ReadLayers(raw, p, layers, read) ==
  IF layers = 0 THEN [layers |-> read, oob |-> FALSE]
  ELSE IF p > Len(raw) THEN [layers |-> read, oob |-> TRUE]
  ELSE
    LET child == read_raw_layer(raw, p)
    IN IF child.layer = NoLayer THEN [layers |-> read, oob |-> child.oob]
       ELSE LET rest == ReadLayers(raw, p + get_raw_layer_size(child.layer),
                                   layers - 1, Append(read, child.layer))
            IN [rest EXCEPT !.oob = @ \/ child.oob]

read_raw_layer(raw, p) ==
  LET layer_id == read_raw_uint32(raw, p)
      name_length == read_raw_uint16(raw, p + 4)
      name == IF name_length > 0
              THEN CString(read_raw_data(raw, p + 6,
                                         IF p + 5 + name_length > Len(raw)
                                         THEN Len(raw) + 1 - (p + 5)
                                         ELSE name_length))
              ELSE <<>>
      q == p + 6 + name_length
      flags == read_raw_uint8(raw, q)
      layer_type == read_raw_uint16(raw, q + 1)
      sprite_id == read_raw_uint32(raw, q + 3)
      head == [id |-> layer_id, name |-> name, flags |-> flags,
               type |-> layer_type, sprite |-> sprite_id]
      outside == q + 8 > Len(raw)
  IN CASE layer_type = GFXOBJ_LAYER_IMAGE ->
            LET body == ReadCels(raw, q + 9, read_raw_uint16(raw, q + 7), <<>>)
            IN [layer |-> head @@ [cels |-> body.cels, layers |-> <<>>],
                oob |-> outside \/ body.oob]
       [] layer_type = GFXOBJ_LAYER_FOLDER ->
            LET body == ReadLayers(raw, q + 9, read_raw_uint16(raw, q + 7),
                                   <<>>)
            IN [layer |-> head @@ [cels |-> <<>>, layers |-> body.layers],
                oob |-> outside \/ body.oob]
       [] OTHER -> [layer |-> NoLayer, oob |-> q + 6 > Len(raw)]

(***************************************************************************)
(* "add_image": stock ID, index of the image in the stock                  *)
(* "remove_image": stock ID, index, the raw image data                     *)
(***************************************************************************)
\* stock->getImage(image_index)
getImage(document, image_index) == document.stock[image_index + 1]

\* what is left of the document's image once image_free has run
FreedImage == InitDoc.image

\* write_raw_image of the document's image: the header, byte by byte, and
\* the rows, band by band
RawImage(image_id, image) ==
  [header |-> write_raw_image([id |-> image_id, imgtype |-> image.imgtype,
                               w |-> image.w, h |-> image.h,
                               mask_color |-> 0, line |-> <<>>]),
   rows |-> ImageRows(image, 0, image.h)]

\* read_raw_image of such data: the id read and the image made
ReadImage(data) ==
  [id |-> read_raw_uint32(data.header, 1),
   image |-> [imgtype |-> ImgTypeOf(read_raw_uint8(data.header, 5)),
              w |-> read_raw_uint16(data.header, 6),
              h |-> read_raw_uint16(data.header, 8),
              line |-> data.rows]]

chunk_add_image_new(self, stream, stock, image_index) ==
  LET objs == addObject(self.objects, stock)
      new == undo_chunk_new(self, stream, UNDO_TYPE_ADD_IMAGE,
                            SizeofUndoChunkAddImage,
                            [stock_id |-> objs[stock],
                             image_index |-> image_index])
  IN IF self.malloc THEN [new EXCEPT !.objects = objs]
     ELSE [new EXCEPT !.objects = objs, !.raised = self.store]

\* write_raw_image registers the image (objects->addObject) for the id it
\* writes and takes it out of the container again (objects->removeObject).
chunk_remove_image_new(self, stream, stock, image_index) ==
  LET image == getImage(self.doc, image_index)
      checked == ASSERT(self, image # NULL)
      objs == addObject(addObject(self.objects, stock), image)
      new == undo_chunk_new(self, stream, UNDO_TYPE_REMOVE_IMAGE,
                            SizeofUndoChunkRemoveImage
                              + get_raw_image_size(self.doc[image]),
                            [stock_id |-> objs[stock],
                             image_index |-> image_index,
                             data |-> RawImage(objs[image], self.doc[image])])
  IN IF checked.raised # NoError THEN checked
     ELSE IF self.malloc
     THEN [new EXCEPT !.objects = removeObject(objs, objs[image])]
     ELSE [new EXCEPT !.objects = objs, !.raised = self.store]

\* Variant, to show what C30 detects: the image read is not put into the
\* container.
chunk_remove_image_invert_Unregistered(self, stream, chunk) ==
  LET stock == getObject(self.objects, chunk.stock_id)
      read == ReadImage(chunk.data)
  IN IF stock = NULL THEN self
     ELSE chunk_add_image_new(
            [self EXCEPT !.doc.image = read.image,
                         !.doc.stock[chunk.image_index + 1] = "image"],
            stream, stock, chunk.image_index)

\* read_raw_image makes the image anew (image_new) and registers it under
\* the id read (objects->insertObject); stock->replaceImage puts it back.
chunk_remove_image_invert(self, stream, chunk) ==
  LET stock == getObject(self.objects, chunk.stock_id)
      read == ReadImage(chunk.data)
  IN IF stock = NULL THEN self
     ELSE IF read.id = 0
     THEN chunk_add_image_new(
            [self EXCEPT !.doc.stock[chunk.image_index + 1] = NULL],
            stream, stock, chunk.image_index)
     ELSE chunk_add_image_new(
            [self EXCEPT !.objects = insertObject(@, read.id, "image"),
                         !.doc.image = read.image,
                         !.doc.stock[chunk.image_index + 1] = "image"],
            stream, stock, chunk.image_index)

\* stock->removeImage(image); image_free(image)
chunk_add_image_invert(self, stream, chunk) ==
  LET stock == getObject(self.objects, chunk.stock_id)
  IN IF stock = NULL \/ getImage(self.doc, chunk.image_index) = NULL
     THEN self
     ELSE LET saved == chunk_remove_image_new(self, stream, stock,
                                              chunk.image_index)
          IN [saved EXCEPT !.doc.stock[chunk.image_index + 1] = NULL,
                           !.doc.image = FreedImage]

(***************************************************************************)
(* "remap_palette": sprite ID, first and last frame, the mapping table     *)
(***************************************************************************)
PaletteIndices == 0..(PaletteSize - 1)

\* sprite->remapImages(frame_from, frame_to, mapping)
remapImages(indexed, frame_from, frame_to, mapping) ==
  [frame \in DOMAIN indexed |->
     IF frame_from <= frame /\ frame <= frame_to
     THEN mapping[indexed[frame]] ELSE indexed[frame]]

\* chunk->mapping[c] = mapping[c], into uint8_t
chunk_remap_palette_new(self, stream, sprite, frame_from, frame_to, mapping) ==
  LET objs == addObject(self.objects, sprite)
      new == undo_chunk_new(self, stream, UNDO_TYPE_REMAP_PALETTE,
                            SizeofUndoChunkRemapPalette,
                            [sprite_id |-> objs[sprite],
                             frame_from |-> frame_from, frame_to |-> frame_to,
                             mapping |-> [c \in PaletteIndices |->
                                            mapping[c] % 256]])
  IN IF self.malloc THEN [new EXCEPT !.objects = objs]
     ELSE [new EXCEPT !.objects = objs, !.raised = self.store]

\* Variant, to show what C23 detects: the table is emitted as it is.
inverse_mapping_Same(mapping) == mapping

\* std::vector<int> inverse_mapping(256);
\* for (c = 0; c < 256; ++c) inverse_mapping[chunk->mapping[c]] = c;
inverse_mapping(mapping) ==
  [j \in PaletteIndices |->
     LET from == {c \in PaletteIndices : mapping[c] = j}
     IN IF from = {} THEN 0
        ELSE CHOOSE c \in from : \A d \in from : d <= c]

\* The sprite lookup is not tested.
chunk_remap_palette_invert(self, stream, chunk) ==
  LET sprite == getObject(self.objects, chunk.sprite_id)
      inverse == inverse_mapping(chunk.mapping)
  IN IF sprite = NULL THEN [self EXCEPT !.raised = SIGSEGV]
     ELSE LET saved == chunk_remap_palette_new(self, stream, sprite,
                                               chunk.frame_from,
                                               chunk.frame_to, inverse)
          IN [saved EXCEPT !.doc.indexed =
                remapImages(@, chunk.frame_from, chunk.frame_to, inverse)]

(***************************************************************************)
(* "flip": image ID, image type, x1, y1, x2, y2, 1=horizontal 0=vertical   *)
(* The image flipped is doc.tile; pixel[y][x] is its pixel at (x, y).      *)
(***************************************************************************)
\* image_getpixel(image, x, y): 0 outside the image
image_getpixel(image, x, y) ==
  IF x \in 0..(image.w - 1) /\ y \in 0..(image.h - 1)
  THEN image.pixel[y][x] ELSE 0

\* image_crop(image, x, y, w, h, 0): a new image, the copy of the rectangle
image_crop(image, x, y, w, h) ==
  [imgtype |-> image.imgtype, w |-> w, h |-> h,
   pixel |-> [v \in 0..(h - 1) |->
                [u \in 0..(w - 1) |-> image_getpixel(image, x + u, y + v)]]]

\* the two for-loops of chunk_flip_invert: every pixel (x, y) of `area` is
\* put at (horz ? x2-x : x1+x, !horz ? y2-y : y1+y) of the image
PutFlipped(image, area, x1, y1, x2, y2, horz) ==
  LET AtX(x) == IF horz THEN x2 - x ELSE x1 + x
      AtY(y) == IF ~horz THEN y2 - y ELSE y1 + y
      From(X, Y) == {p \in (0..(area.w - 1)) \X (0..(area.h - 1)) :
                       AtX(p[1]) = X /\ AtY(p[2]) = Y}
  IN [image EXCEPT !.pixel =
        [Y \in DOMAIN @ |->
           [X \in DOMAIN @[Y] |->
              IF From(X, Y) = {} THEN @[Y][X]
              ELSE LET p == CHOOSE q \in From(X, Y) : TRUE
                   IN image_getpixel(area, p[1], p[2])]]]

chunk_flip_new(self, stream, image, x1, y1, x2, y2, horz) ==
  LET objs == addObject(self.objects, image)
      new == undo_chunk_new(self, stream, UNDO_TYPE_FLIP, SizeofUndoChunkFlip,
                            [image_id |-> objs[image],
                             imgtype |-> self.doc[image].imgtype,
                             x1 |-> x1 % 65536, y1 |-> y1 % 65536,
                             x2 |-> x2 % 65536, y2 |-> y2 % 65536,
                             horz |-> IF horz THEN 1 ELSE 0])
  IN IF self.malloc THEN [new EXCEPT !.objects = objs]
     ELSE [new EXCEPT !.objects = objs, !.raised = self.store]

\* Variant, to show what C38 detects: the inverse chunk is given the other
\* axis.
chunk_flip_invert_OtherAxis(self, stream, chunk) ==
  LET image == getObject(self.objects, chunk.image_id)
  IN IF image # NULL /\ self.doc[image].imgtype = chunk.imgtype
     THEN LET horz == (chunk.horz # 0)
              saved == chunk_flip_new(self, stream, image, chunk.x1, chunk.y1,
                                      chunk.x2, chunk.y2, ~horz)
              area == image_crop(self.doc[image], chunk.x1, chunk.y1,
                                 chunk.x2 - chunk.x1 + 1,
                                 chunk.y2 - chunk.y1 + 1)
          IN [saved EXCEPT !.doc[image] =
                PutFlipped(@, area, chunk.x1, chunk.y1, chunk.x2, chunk.y2,
                           horz)]
     ELSE self

\* if the image is there and of the type recorded: the inverse chunk, then
\* the pixels of the rectangle, copied with image_crop, are put back mirrored
chunk_flip_invert(self, stream, chunk) ==
  LET image == getObject(self.objects, chunk.image_id)
  IN IF image # NULL /\ self.doc[image].imgtype = chunk.imgtype
     THEN LET horz == (chunk.horz # 0)
              saved == chunk_flip_new(self, stream, image, chunk.x1, chunk.y1,
                                      chunk.x2, chunk.y2, horz)
              area == image_crop(self.doc[image], chunk.x1, chunk.y1,
                                 chunk.x2 - chunk.x1 + 1,
                                 chunk.y2 - chunk.y1 + 1)
          IN [saved EXCEPT !.doc[image] =
                PutFlipped(@, area, chunk.x1, chunk.y1, chunk.x2, chunk.y2,
                           horz)]
     ELSE self

(***************************************************************************)
(* Palettes.  A Palette is a heap object: doc.heap[p] is what the block p   *)
(* holds (its frame and its entries, kept after the block is freed),        *)
(* doc.alive the blocks in use, doc.palettes[frame] the palette the sprite  *)
(* holds for the frame (NULL: none), doc.frame the sprite's current frame.  *)
(***************************************************************************)
\* new Palette(...): the first block that is not in use
NewPalette(document) ==
  PaletteBlocks[CHOOSE k \in DOMAIN PaletteBlocks :
                  /\ PaletteBlocks[k] \notin document.alive
                  /\ \A j \in 1..(k - 1) : PaletteBlocks[j] \in document.alive]

\* sprite->getCurrentFrame()
getCurrentFrame(document) == document.frame

\* sprite->getPalette(frame): the palette of the last frame up to `frame`
\* that has one, or NULL
getPalette(document, frame) ==
  LET held == {f \in DOMAIN document.palettes :
                 f <= frame /\ document.palettes[f] # NULL}
  IN IF held = {} THEN NULL
     ELSE document.palettes[CHOOSE f \in held : \A g \in held : g <= f]

\* sprite->setPalette(palette, true): the colours are copied into the
\* palette the sprite holds for palette->getFrame(), or a copy of the
\* palette (new Palette(*palette)) is inserted for that frame
setPalette(document, palette) ==
  LET frame == document.heap[palette].frame
      copy == NewPalette(document)
  IN IF document.palettes[frame] # NULL
     THEN [document EXCEPT !.heap[document.palettes[frame]].entry =
                             document.heap[palette].entry]
     ELSE [document EXCEPT !.heap[copy] = document.heap[palette],
                           !.alive = @ \cup {copy},
                           !.palettes[frame] = copy]

\* sprite->deletePalette(palette): the palette leaves the sprite's list and
\* is deleted
deletePalette(document, palette) ==
  [document EXCEPT !.alive = @ \ {palette},
                   !.palettes = [f \in DOMAIN @ |->
                                   IF @[f] = palette THEN NULL ELSE @[f]]]

\* palette->setEntry(i, color) for i = from..to, the colours in `colors`
setEntries(document, palette, from, colors) ==
  [document EXCEPT !.heap[palette].entry =
     [i \in DOMAIN @ |->
        IF from <= i - 1 /\ i - 1 < from + Len(colors)
        THEN colors[i - from] ELSE @[i]]]

\* Raw palette data: WORD frame, WORD ncolors, DWORD colour per entry
write_raw_palette(palette) ==
  write_raw_uint16(palette.frame) \o write_raw_uint16(Len(palette.entry))
    \o Flatten([c \in DOMAIN palette.entry |->
                  write_raw_uint32(palette.entry[c])])

\* 2 WORD + 4 BYTES*ncolors
get_raw_palette_size(palette) == 2 * 2 + 4 * Len(palette.entry)

\* read_raw_palette: what the new Palette(frame, ncolors) is filled with
read_raw_palette(raw) ==
  [frame |-> read_raw_uint16(raw, 1),
   entry |-> [c \in 1..read_raw_uint16(raw, 3) |->
                read_raw_uint32(raw, 5 + 4 * (c - 1))]]

(***************************************************************************)
(* "add_palette": sprite ID, palette ID                                    *)
(* "remove_palette": sprite ID, the palette's raw data                     *)
(***************************************************************************)
chunk_add_palette_new(self, stream, sprite, palette) ==
  LET objs == addObject(addObject(self.objects, sprite), palette)
      new == undo_chunk_new(self, stream, UNDO_TYPE_ADD_PALETTE,
                            SizeofUndoChunkAddPalette,
                            [sprite_id |-> objs[sprite],
                             palette_id |-> objs[palette]])
  IN IF self.malloc THEN [new EXCEPT !.objects = objs]
     ELSE [new EXCEPT !.objects = objs, !.raised = self.store]

chunk_remove_palette_new(self, stream, sprite, palette) ==
  LET objs == addObject(self.objects, sprite)
      new == undo_chunk_new(self, stream, UNDO_TYPE_REMOVE_PALETTE,
                            SizeofUndoChunkRemovePalette
                              + get_raw_palette_size(self.doc.heap[palette]),
                            [sprite_id |-> objs[sprite],
                             data |-> write_raw_palette(
                                        self.doc.heap[palette])])
  IN IF self.malloc THEN [new EXCEPT !.objects = objs]
     ELSE [new EXCEPT !.objects = objs, !.raised = self.store]

\* Neither lookup is tested.  A palette that was deleted is read through a
\* dangling pointer (undefined behaviour): the process is stopped by a
\* fault, or the read yields what the freed block held and deletePalette,
\* which does not find the pointer in the sprite's list, changes nothing.
chunk_add_palette_invert(self, stream, chunk) ==
  LET sprite == getObject(self.objects, chunk.sprite_id)
      palette == getObject(self.objects, chunk.palette_id)
  IN IF \/ sprite = NULL
        \/ palette = NULL
        \/ (self.deref = SIGSEGV /\ palette \notin self.doc.alive)
     THEN [self EXCEPT !.raised = SIGSEGV]
     ELSE LET saved == chunk_remove_palette_new(self, stream, sprite, palette)
          IN IF palette \in self.doc.alive
             THEN [saved EXCEPT !.doc = deletePalette(@, palette)]
             ELSE saved

\* palette = read_raw_palette(chunk->data); chunk_add_palette_new(stream,
\* sprite, palette); sprite->setPalette(palette, true); delete palette
chunk_remove_palette_invert(self, stream, chunk) ==
  LET sprite == getObject(self.objects, chunk.sprite_id)
      read == read_raw_palette(chunk.data)
      palette == NewPalette(self.doc)
      made == [self EXCEPT !.doc.heap[palette] = read,
                           !.doc.alive = @ \cup {palette}]
  IN IF sprite = NULL THEN [self EXCEPT !.raised = SIGSEGV]
     ELSE LET saved == chunk_add_palette_new(made, stream, sprite, palette)
              set == [saved EXCEPT !.doc = setPalette(@, palette)]
          IN [set EXCEPT !.doc.alive = @ \ {palette}]

(***************************************************************************)
(* "set_palette_colors": sprite ID, frame, from, to, the entries from..to  *)
(***************************************************************************)
\* chunk->frame = sprite->getCurrentFrame(); the entries from..to of
\* `palette` are written
chunk_set_palette_colors_new(self, stream, sprite, palette, from, to) ==
  LET objs == addObject(self.objects, sprite)
      new == undo_chunk_new(self, stream, UNDO_TYPE_SET_PALETTE_COLORS,
                            SizeofUndoChunkSetPaletteColors
                              + 4 * (to - from + 1),
                            [sprite_id |-> objs[sprite],
                             frame |-> getCurrentFrame(self.doc),
                             from |-> from % 256, to |-> to % 256,
                             data |-> Flatten(
                               [k \in 1..(to - from + 1) |->
                                  write_raw_uint32(
                                    self.doc.heap[palette].entry[from + k])])])
  IN IF self.malloc THEN [new EXCEPT !.objects = objs]
     ELSE [new EXCEPT !.objects = objs, !.raised = self.store]

\* Variant, to show what C32 detects: the entries are written into the
\* palette of the sprite's current frame.
chunk_set_palette_colors_invert_Current(self, stream, chunk) ==
  LET sprite == getObject(self.objects, chunk.sprite_id)
      palette == getPalette(self.doc, getCurrentFrame(self.doc))
  IN IF sprite = NULL THEN [self EXCEPT !.raised = SIGSEGV]
     ELSE IF palette = NULL THEN [self EXCEPT !.raised = UndoException]
     ELSE LET saved == chunk_set_palette_colors_new(self, stream, sprite,
                                                    palette, chunk.from,
                                                    chunk.to)
          IN [saved EXCEPT !.doc =
                setEntries(@, palette, chunk.from,
                           [k \in 1..(chunk.to - chunk.from + 1) |->
                              read_raw_uint32(chunk.data, 4 * k - 3)])]

\* The sprite lookup is not tested.  palette = sprite->getPalette(
\* chunk->frame); the inverse chunk is made by chunk_set_palette_colors_new.
chunk_set_palette_colors_invert(self, stream, chunk) ==
  LET sprite == getObject(self.objects, chunk.sprite_id)
      palette == getPalette(self.doc, chunk.frame)
  IN IF sprite = NULL THEN [self EXCEPT !.raised = SIGSEGV]
     ELSE IF palette = NULL THEN [self EXCEPT !.raised = UndoException]
     ELSE LET saved == chunk_set_palette_colors_new(self, stream, sprite,
                                                    palette, chunk.from,
                                                    chunk.to)
          IN [saved EXCEPT !.doc =
                setEntries(@, palette, chunk.from,
                           [k \in 1..(chunk.to - chunk.from + 1) |->
                              read_raw_uint32(chunk.data, 4 * k - 3)])]

(***************************************************************************)
(* "add_layer": parent folder ID, layer ID                                 *)
(* "remove_layer": parent folder ID, after layer ID, the raw layer data    *)
(***************************************************************************)
\* the position in the folder of the layer registered under id, 0 if none
LayerAt(folder, id) ==
  IF \E k \in DOMAIN folder.layers : folder.layers[k].id = id
  THEN CHOOSE k \in DOMAIN folder.layers : folder.layers[k].id = id
  ELSE 0

\* folder->remove_layer(layer)
remove_layer(folder, k) ==
  [folder EXCEPT !.layers =
     SubSeq(@, 1, k - 1) \o SubSeq(@, k + 1, Len(@))]

\* folder->add_layer(layer); folder->move_layer(layer, after): the layer is
\* put right after the layer at position k, first when k is 0
add_layer_after(folder, layer, k) ==
  [folder EXCEPT !.layers =
     SubSeq(@, 1, k) \o <<layer>> \o SubSeq(@, k + 1, Len(@))]

chunk_add_layer_new(self, stream, folder, layer) ==
  LET new == undo_chunk_new(self, stream, UNDO_TYPE_ADD_LAYER,
                            SizeofUndoChunkAddLayer,
                            [folder_id |-> folder.id, layer_id |-> layer.id])
  IN IF self.malloc THEN new ELSE [new EXCEPT !.raised = self.store]

\* the chunk's data: get_raw_layer_size(layer) bytes, zero when allocated,
\* with the bytes write_raw_layer lays down at their start
chunk_remove_layer_new(self, stream, k) ==
  LET folder == self.doc.folder
      layer == folder.layers[k]
      written == write_raw_layer(layer)
      new == undo_chunk_new(self, stream, UNDO_TYPE_REMOVE_LAYER,
                            SizeofUndoChunkRemoveLayer
                              + get_raw_layer_size(layer),
                            [folder_id |-> folder.id,
                             after_id |-> IF k > 1 THEN folder.layers[k - 1].id
                                          ELSE 0,
                             data |-> written
                                        \o [b \in 1..(get_raw_layer_size(layer)
                                                        - Len(written)) |-> 0]])
  IN IF self.malloc THEN new ELSE [new EXCEPT !.raised = self.store]

\* The lookups are not tested.  Reading the raw data out of bounds is
\* undefined: the process is stopped by a fault, or the bytes read are taken
\* as they come.
chunk_remove_layer_invert(self, stream, chunk) ==
  LET folder == self.doc.folder
      read == read_raw_layer(chunk.data, 1)
      after == IF chunk.after_id # 0 THEN LayerAt(folder, chunk.after_id)
               ELSE 0
  IN IF folder.id # chunk.folder_id \/ read.layer = NoLayer
     THEN [self EXCEPT !.raised = SIGSEGV]
     ELSE IF read.oob /\ self.deref = SIGSEGV
     THEN [self EXCEPT !.raised = SIGSEGV]
     ELSE LET saved == chunk_add_layer_new(self, stream, folder, read.layer)
          IN [saved EXCEPT !.doc.folder =
                add_layer_after(folder, read.layer, after)]

chunk_add_layer_invert(self, stream, chunk) ==
  LET folder == self.doc.folder
      k == LayerAt(folder, chunk.layer_id)
  IN IF folder.id # chunk.folder_id \/ k = 0
     THEN [self EXCEPT !.raised = SIGSEGV]
     ELSE LET saved == chunk_remove_layer_new(self, stream, k)
          IN [saved EXCEPT !.doc.folder = remove_layer(folder, k)]

\* undo_actions[chunk->type].invert
invert(self, stream, chunk) ==
  CASE chunk.type = UNDO_TYPE_OPEN -> chunk_open_invert(self, stream, chunk)
    [] chunk.type = UNDO_TYPE_CLOSE -> chunk_close_invert(self, stream, chunk)
    [] chunk.type = UNDO_TYPE_IMAGE -> chunk_image_invert(self, stream, chunk)
    [] chunk.type = UNDO_TYPE_SET_SIZE -> chunk_set_size_invert(self, stream, chunk)
    [] chunk.type = UNDO_TYPE_DATA -> chunk_data_invert(self, stream, chunk)
    [] chunk.type = UNDO_TYPE_ADD_LAYER ->
         chunk_add_layer_invert(self, stream, chunk)
    [] chunk.type = UNDO_TYPE_REMAP_PALETTE ->
         chunk_remap_palette_invert(self, stream, chunk)
    [] chunk.type = UNDO_TYPE_ADD_IMAGE ->
         chunk_add_image_invert(self, stream, chunk)
    [] chunk.type = UNDO_TYPE_REMOVE_IMAGE ->
         chunk_remove_image_invert(self, stream, chunk)
    [] chunk.type = UNDO_TYPE_REMOVE_LAYER ->
         chunk_remove_layer_invert(self, stream, chunk)
    [] chunk.type = UNDO_TYPE_FLIP -> chunk_flip_invert(self, stream, chunk)
    [] chunk.type = UNDO_TYPE_ADD_PALETTE ->
         chunk_add_palette_invert(self, stream, chunk)
    [] chunk.type = UNDO_TYPE_REMOVE_PALETTE ->
         chunk_remove_palette_invert(self, stream, chunk)
    [] chunk.type = UNDO_TYPE_SET_PALETTE_COLORS ->
         chunk_set_palette_colors_invert(self, stream, chunk)

(***************************************************************************)
(* UndoHistory                                                             *)
(***************************************************************************)
canUndo(self) == ~empty(self.undo)

canRedo(self) == ~empty(self.redo)

\* Variant, to show what C3 detects: the redo stream is kept.
clearRedo_Keep(self) == self

\* clearRedo
clearRedo(self) ==
  IF ~empty(self.redo) THEN [self EXCEPT !.redo = clear(self.redo)] ELSE self

\* Variant, to show what C5 detects: a CLOSE does not change the level.
LevelStep_OpenOnly(chunk) ==
  IF chunk.type = UNDO_TYPE_OPEN THEN 1 ELSE 0

\* the change of the group level a chunk makes in runUndo, discardTail,
\* count_undo_groups and out_of_group
LevelStep(chunk) ==
  IF chunk.type = UNDO_TYPE_OPEN THEN 1
  ELSE IF chunk.type = UNDO_TYPE_CLOSE THEN -1
  ELSE 0

\* the streams runUndo reads from and writes to
SourceOf(state) == IF state = DO_UNDO THEN "undo" ELSE "redo"

TargetOf(state) == IF state = DO_REDO THEN "undo" ELSE "redo"

\* Variant, to show what C2 detects: the chunk is read from the tail.
readChunk_Tail(undo_stream) == popChunk(undo_stream, TRUE)

\* chunk = undo_stream->popChunk(false); // read from head
readChunk(undo_stream) == popChunk(undo_stream, FALSE)

\* Variant, to show what C7 detects: an undone chunk is not counted.
countDiff_RedoOnly(self, state) ==
  [self EXCEPT !.diffCount = IF state = DO_REDO THEN @ + 1 ELSE @]

\* if (state == DO_UNDO) m_diffCount--; else if (state == DO_REDO) m_diffCount++;
countDiff(self, state) ==
  [self EXCEPT !.diffCount = IF state = DO_UNDO THEN @ - 1
                             ELSE IF state = DO_REDO THEN @ + 1
                             ELSE @]

\* One turn of runUndo's do-while loop and, while the level is not 0, the
\* turns that follow.  An exception thrown by the inverter leaves the loop
\* with the chunk already popped.
RECURSIVE runUndoLoop(_, _, _)
runUndoLoop(self, state, level) ==
  IF empty(self[SourceOf(state)]) THEN self
  ELSE
    LET popped == readChunk(self[SourceOf(state)])
        chunk == popped.chunk
        read == [self EXCEPT ![SourceOf(state)] = popped.stream,
                             !.entry = chunk.entry, !.turns = @ + 1]
        inverted == invert(setLabel(read, chunk.label), TargetOf(state), chunk)
        newLevel == level + LevelStep(chunk)
        counted == countDiff(inverted, state)
    IN IF inverted.raised # NoError THEN inverted
       ELSE IF newLevel # 0 THEN runUndoLoop(counted, state, newLevel)
       ELSE counted

\* Variant, to show what C29 detects: a call that finds no chunk is counted
\* all the same.
runUndo_CountEmpty(self, state) ==
  IF empty(self[SourceOf(state)]) THEN countDiff(self, state)
  ELSE runUndoLoop(self, state, 0)

runUndo(self, state) == runUndoLoop(self, state, 0)

doUndo(self) == runUndo(self, DO_UNDO)

doRedo(self) == runUndo(self, DO_REDO)

\* discardTail: chunks leave the tail of the undo stream until the level is 0
RECURSIVE discardTailLoop(_, _)
discardTailLoop(self, level) ==
  IF empty(self.undo) THEN self
  ELSE
    LET popped == popChunk(self.undo, TRUE)
        newLevel == level + LevelStep(popped.chunk)
        freed == [self EXCEPT !.undo = popped.stream, !.turns = @ + 1]
    IN IF newLevel # 0 THEN discardTailLoop(freed, newLevel) ELSE freed

\* Variant, to show what C11 detects: the chunk is taken from the head.
discardTail_Head(self) ==
  IF empty(self.undo) THEN self
  ELSE [self EXCEPT !.undo = popChunk(self.undo, FALSE).stream]

\* Variant, to show what C28 detects: one chunk is taken from the tail,
\* whatever its kind.
discardTail_OneChunk(self) ==
  IF empty(self.undo) THEN self
  ELSE [self EXCEPT !.undo = popChunk(self.undo, TRUE).stream]

discardTail(self) == discardTailLoop(self, 0)

\* The inner do-while of count_undo_groups and out_of_group, started at
\* position `it` with level 0: the position and the level it ends with.
RECURSIVE walkGroup(_, _, _)
walkGroup(chunks, it, level) ==
  LET newLevel == level + LevelStep(chunks[it])
  IN IF newLevel # 0 /\ it + 1 <= Len(chunks)
     THEN walkGroup(chunks, it + 1, newLevel)
     ELSE [it |-> it + 1, level |-> newLevel]

\* Variant, to show what C16 detects: every chunk counts as a group.
count_undo_groups_Chunks(undo_stream) == Len(undo_stream.chunks)

RECURSIVE countGroupsFrom(_, _, _)
countGroupsFrom(chunks, it, groups) ==
  IF it > Len(chunks) THEN groups
  ELSE LET walked == walkGroup(chunks, it, 0)
       IN countGroupsFrom(chunks, walked.it,
                          IF walked.level = 0 THEN groups + 1 ELSE groups)

count_undo_groups(undo_stream) == countGroupsFrom(undo_stream.chunks, 1, 0)

\* the level out_of_group is left with after the outer loop
RECURSIVE lastLevelFrom(_, _, _)
lastLevelFrom(chunks, it, level) ==
  IF it > Len(chunks) THEN level
  ELSE LET walked == walkGroup(chunks, it, 0)
       IN lastLevelFrom(chunks, walked.it, walked.level)

\* Variant, to show what C10 detects: only the first walk decides.
out_of_group_FirstWalk(undo_stream) ==
  undo_stream.chunks = <<>> \/ walkGroup(undo_stream.chunks, 1, 0).level = 0

out_of_group(undo_stream) == lastLevelFrom(undo_stream.chunks, 1, 0) = 0

\* Variant, to show what C9 detects: an `if` in place of the `while`.
discardWhileTooBig_Once(self, groups, undo_size_limit) ==
  IF groups > 1 /\ getMemSize(self.undo) > undo_size_limit
  THEN discardTail(self)
  ELSE self

\* Variant, to show what C36 detects: the loop goes on while the stream is
\* too big, however many groups are left.
RECURSIVE discardWhileTooBig_Uncounted(_, _, _)
discardWhileTooBig_Uncounted(self, groups, undo_size_limit) ==
  IF ~empty(self.undo) /\ getMemSize(self.undo) > undo_size_limit
  THEN discardWhileTooBig_Uncounted(
         [discardTail(self) EXCEPT !.discards = @ + 1], groups,
         undo_size_limit)
  ELSE self

\* the loop of updateUndo: "undo" is too big?
RECURSIVE discardWhileTooBig(_, _, _)
discardWhileTooBig(self, groups, undo_size_limit) ==
  IF groups > 1 /\ getMemSize(self.undo) > undo_size_limit
  THEN discardWhileTooBig([discardTail(self) EXCEPT !.discards = @ + 1],
                          groups - 1, undo_size_limit)
  ELSE self

\* n*1024 in a signed 32-bit int: a product that does not fit wraps (two's
\* complement), so that only the low 22 bits of n count
Times1024(n) ==
  LET low == n % 4194304
  IN IF low < 2097152 THEN low * 1024 ELSE (low - 4194304) * 1024

\* int undo_size_limit = get_config_int("Options", "UndoSizeLimit", 8)
\*                          *1024*1024;
undo_size_limit_of(limit) == Times1024(Times1024(limit))

\* Variant, to show what C25 detects: only a call that completes a top-level
\* entry is counted.
updateUndo_TopLevel(self, limit) ==
  LET undo_size_limit == undo_size_limit_of(limit)
      cleared == clearRedo(self)
  IN IF out_of_group(cleared.undo)
     THEN discardWhileTooBig([cleared EXCEPT !.diffCount = @ + 1],
                             count_undo_groups(cleared.undo), undo_size_limit)
     ELSE cleared

\* updateUndo, called every time a new undo is added; `limit` is what
\* get_config_int("Options", "UndoSizeLimit", 8) returns
updateUndo(self, limit) ==
  LET undo_size_limit == undo_size_limit_of(limit)
      counted == [self EXCEPT !.diffCount = @ + 1]
      cleared == clearRedo(counted)
  IN IF out_of_group(cleared.undo)
     THEN discardWhileTooBig(cleared, count_undo_groups(cleared.undo),
                             undo_size_limit)
     ELSE cleared

\* the recording calls
undo_open(self, limit) == updateUndo(chunk_open_new(self, "undo"), limit)

undo_close(self, limit) == updateUndo(chunk_close_new(self, "undo"), limit)

\* (a call stopped by a fault in chunk_*_new does not get to updateUndo)
undo_image(self, limit, image, x, y, w, h) ==
  LET new == chunk_image_new(self, "undo", image, x, y, w, h)
  IN IF new.raised = NoError THEN updateUndo(new, limit) ELSE new

\* Variant, to show what C35 detects: nothing is recorded while the history
\* is disabled.
undo_set_size_WhenEnabled(self, limit, sprite) ==
  IF self.enabled
  THEN LET new == chunk_set_size_new(self, "undo", sprite)
       IN IF new.raised = NoError THEN updateUndo(new, limit) ELSE new
  ELSE self

undo_set_size(self, limit, sprite) ==
  LET new == chunk_set_size_new(self, "undo", sprite)
  IN IF new.raised = NoError THEN updateUndo(new, limit) ELSE new

undo_remove_image(self, limit, stock, image_index) ==
  LET new == chunk_remove_image_new(self, "undo", stock, image_index)
  IN IF new.raised = NoError THEN updateUndo(new, limit) ELSE new

undo_remap_palette(self, limit, sprite, frame_from, frame_to, mapping) ==
  LET new == chunk_remap_palette_new(self, "undo", sprite, frame_from,
                                     frame_to, mapping)
  IN IF new.raised = NoError THEN updateUndo(new, limit) ELSE new

\* undo_remove_layer of the layer at position k of the root folder
undo_remove_layer(self, limit, k) ==
  LET new == chunk_remove_layer_new(self, "undo", k)
  IN IF new.raised = NoError THEN updateUndo(new, limit) ELSE new

undo_flip(self, limit, image, x1, y1, x2, y2, horz) ==
  LET new == chunk_flip_new(self, "undo", image, x1, y1, x2, y2, horz)
  IN IF new.raised = NoError THEN updateUndo(new, limit) ELSE new

undo_add_palette(self, limit, sprite, palette) ==
  LET new == chunk_add_palette_new(self, "undo", sprite, palette)
  IN IF new.raised = NoError THEN updateUndo(new, limit) ELSE new

undo_remove_palette(self, limit, sprite, palette) ==
  LET new == chunk_remove_palette_new(self, "undo", sprite, palette)
  IN IF new.raised = NoError THEN updateUndo(new, limit) ELSE new

undo_set_palette_colors(self, limit, sprite, palette, from, to) ==
  LET new == chunk_set_palette_colors_new(self, "undo", sprite, palette,
                                          from, to)
  IN IF new.raised = NoError THEN updateUndo(new, limit) ELSE new

undo_data(self, limit, object, fieldOffset, fieldSize) ==
  LET new == chunk_data_new(self, "undo", object, fieldOffset, fieldSize)
  IN IF new.raised = NoError THEN updateUndo(new, limit) ELSE new

isSavedState == m_diffCount = m_diffSaved

\* Variant, to show what C6 detects: the saved mark is left as it was.
markSavedState_Unchanged == m_diffSaved

\* markSavedState: the value m_diffSaved takes
markSavedState == m_diffCount


(***************************************************************************)
(* The calls of the editor.  The editor records every change it makes to   *)
(* the document (the recording call, then the change), it closes the       *)
(* groups it opens, and it saves, undoes and redoes between its top-level  *)
(* groups (runUndo expects a source stream that starts with a whole        *)
(* top-level entry).                                                       *)
(***************************************************************************)
RecordingOps ==
  {"undo_open", "undo_close", "undo_set_size", "undo_image", "undo_data",
   "undo_remove_layer", "undo_remap_palette", "undo_remove_image",
   "undo_add_palette", "undo_remove_palette", "undo_set_palette_colors",
   "undo_flip"}

\* the process has not been stopped by a fault
Running == lastCall.result # SIGSEGV

\* the top-level actions whose chunks a stream holds
Entries(stream) == {stream.chunks[i].entry : i \in DOMAIN stream.chunks}

\* the engine's state after a call that left `self`
Commit(self) ==
  /\ m_undoStream' = self.undo
  /\ m_redoStream' = self.redo
  /\ m_label' = self.label
  /\ m_diffCount' = self.diffCount
  /\ objects' = self.objects
  /\ doc' = self.doc

NoMark == [phase |-> "none", pending |-> 0, lost |-> FALSE]

\* sinceMark after a recording call that left the undo stream `undo`: one
\* more top-level action when the call began one; `lost` once the stream
\* holds fewer top-level actions than were recorded since the mark
MarkAfterRecording(undo) ==
  IF sinceMark.phase = "rec"
  THEN LET pending == IF openDepth = 0 THEN sinceMark.pending + 1
                      ELSE sinceMark.pending
       IN [phase |-> "rec", pending |-> pending,
           lost |-> (sinceMark.lost \/ Cardinality(Entries(undo)) < pending)]
  ELSE NoMark

\* sinceMark after a doUndo call: one recorded action less to undo
MarkAfterUndo ==
  IF sinceMark.phase \in {"rec", "undo"} /\ sinceMark.pending > 0
  THEN [sinceMark EXCEPT !.phase = "undo", !.pending = @ - 1]
  ELSE NoMark

\* a recording call: `self` is what the call left, `edited` the document
\* after the change the editor makes next
Recorded(op, self, edited) ==
  /\ Running
  /\ nRecords < MaxRecords
  /\ Commit([self EXCEPT !.doc = edited])
  /\ nRecords' = nRecords + 1
  /\ nEntries' = self.entry
  /\ evicted' = (evicted \/ Len(self.undo.chunks) <= Len(m_undoStream.chunks))
  /\ docRecorded' = edited
  /\ sinceMark' = MarkAfterRecording(self.undo)
  /\ lastCall' = [op |-> op, result |-> self.raised]
  /\ UNCHANGED <<m_enabled, m_diffSaved, undoSizeLimit>>

UndoOpen ==
  /\ openDepth < MaxDepth
  /\ Recorded("undo_open", undo_open(This, undoSizeLimit), doc)
  /\ openDepth' = openDepth + 1

UndoClose ==
  /\ openDepth > 0
  /\ Recorded("undo_close", undo_close(This, undoSizeLimit), doc)
  /\ openDepth' = openDepth - 1

\* the editor resizes the sprite: undo_set_size, then sprite->setSize
EditSize ==
  \E width \in 1..MaxDim :
    /\ objects["sprite"] >= 0
    /\ Recorded("undo_set_size", undo_set_size(This, undoSizeLimit, "sprite"),
                [doc EXCEPT !.sprite = [width |-> width,
                                        height |-> MaxDim + 1 - width]])
    /\ UNCHANGED openDepth

\* the editor paints `count` bands from band `first` on in one colour:
\* undo_image of their rows, then the pixels are written
EditImage ==
  \E first \in 1..NBands, color \in 1..MaxColor :
    \E count \in 1..(NBands + 1 - first) :
      /\ objects["image"] >= 0
      /\ Recorded("undo_image",
                  undo_image(This, undoSizeLimit, "image", 0,
                             (first - 1) * BandRows, doc.image.w,
                             count * BandRows),
                  [doc EXCEPT !.image =
                     PutRows(@, (first - 1) * BandRows, count * BandRows,
                             [v \in 1..count |-> color])])
      /\ UNCHANGED openDepth

\* doUndo / doRedo
Replayed(op, self) ==
  /\ Running
  /\ openDepth = 0
  /\ Commit(self)
  /\ lastCall' = [op |-> op, result |-> self.raised]
  /\ sinceMark' = IF op = "doUndo" THEN MarkAfterUndo ELSE NoMark
  /\ UNCHANGED <<m_enabled, m_diffSaved, undoSizeLimit, openDepth, nRecords,
                 nEntries, evicted, docRecorded>>

DoUndo ==
  \E outcome \in NullDeref :
    Replayed("doUndo", doUndo([This EXCEPT !.deref = outcome]))

DoRedo ==
  \E outcome \in NullDeref :
    Replayed("doRedo", doRedo([This EXCEPT !.deref = outcome]))

\* A recording call in which base_malloc0 returns NULL.  The call returns
\* nothing, so the editor goes on as after any recording call, unless the
\* process was stopped.
NoMemory == "no memory"

RecordedNoMemory(op, self, edited) ==
  /\ Running
  /\ nRecords < MaxRecords
  /\ Commit(IF self.raised = NoError THEN [self EXCEPT !.doc = edited]
            ELSE self)
  /\ nRecords' = nRecords + 1
  /\ nEntries' = self.entry
  /\ docRecorded' = IF self.raised = NoError THEN edited ELSE docRecorded
  /\ sinceMark' = NoMark
  /\ lastCall' = [op |-> op,
                  result |-> IF self.raised = NoError THEN NoMemory
                             ELSE self.raised]
  /\ UNCHANGED <<m_enabled, m_diffSaved, undoSizeLimit, evicted>>

UndoOpenNoMemory ==
  /\ openDepth < MaxDepth
  /\ RecordedNoMemory("undo_open",
                      undo_open([This EXCEPT !.malloc = FALSE], undoSizeLimit),
                      doc)
  /\ openDepth' = openDepth + 1

UndoCloseNoMemory ==
  /\ openDepth > 0
  /\ RecordedNoMemory("undo_close",
                      undo_close([This EXCEPT !.malloc = FALSE], undoSizeLimit),
                      doc)
  /\ openDepth' = openDepth - 1

EditSizeNoMemory ==
  \E width \in 1..MaxDim, outcome \in NullStore :
    /\ objects["sprite"] >= 0
    /\ RecordedNoMemory("undo_set_size",
                        undo_set_size([This EXCEPT !.malloc = FALSE,
                                                   !.store = outcome],
                                      undoSizeLimit, "sprite"),
                        [doc EXCEPT !.sprite = [width |-> width,
                                                height |-> MaxDim + 1 - width]])
    /\ UNCHANGED openDepth

\* the editor changes `fieldSize` bytes of the sprite at `fieldOffset`:
\* undo_data of the field, then the bytes are written
EditData ==
  \E fieldOffset \in 0..1, value \in 1..MaxDim :
    \E fieldSize \in 1..(2 - fieldOffset) :
      /\ objects["sprite"] >= 0
      /\ Recorded("undo_data",
                  undo_data(This, undoSizeLimit, "sprite", fieldOffset,
                            fieldSize),
                  [doc EXCEPT !.sprite =
                     PutField(@, fieldOffset, [k \in 1..fieldSize |-> value])])
      /\ UNCHANGED openDepth

\* A recording call made with arguments that violate the encoder's
\* precondition.  `self` is what the call left; the editor does not get to
\* make its change.
BadFieldSizes == {-1, 0}

BadRects ==
  {r \in [x : {-1, 0, 1}, y : {0}, w : {0, ImageWidth},
          h : {0, NBands * BandRows}] :
     ~(/\ r.w >= 1 /\ r.h >= 1 /\ r.x >= 0 /\ r.y >= 0
       /\ r.x + r.w <= ImageWidth /\ r.y + r.h <= NBands * BandRows)}

Rejected(op, self) ==
  /\ Running
  /\ nRecords < MaxRecords
  /\ Commit(self)
  /\ nRecords' = nRecords + 1
  /\ lastCall' = [op |-> op, result |-> self.raised]
  /\ UNCHANGED <<m_enabled, m_diffSaved, undoSizeLimit, openDepth, nEntries,
                 evicted, docRecorded, sinceMark>>

UndoDataBadSize ==
  \E fieldOffset \in 0..1, fieldSize \in BadFieldSizes :
    Rejected("undo_data",
             undo_data(This, undoSizeLimit, "sprite", fieldOffset, fieldSize))

UndoImageBadRect ==
  \E r \in BadRects :
    /\ objects["image"] >= 0
    /\ Rejected("undo_image",
                undo_image(This, undoSizeLimit, "image", r.x, r.y, r.w, r.h))

\* clearRedo: the timeline now ends at the present document
ClearRedo ==
  /\ Running
  /\ canRedo(This)
  /\ Commit(clearRedo(This))
  /\ lastCall' = [op |-> "clearRedo", result |-> NoError]
  /\ docRecorded' = doc
  /\ sinceMark' = NoMark
  /\ UNCHANGED <<m_enabled, m_diffSaved, undoSizeLimit, openDepth, nRecords,
                 nEntries, evicted>>

MarkSavedState ==
  /\ Running
  /\ openDepth = 0
  /\ m_diffSaved' = markSavedState
  /\ lastCall' = [op |-> "markSavedState", result |-> NoError]
  /\ sinceMark' = [phase |-> "rec", pending |-> 0, lost |-> FALSE]
  /\ UNCHANGED <<m_undoStream, m_redoStream, m_label, m_enabled, m_diffCount,
                 doc, objects, undoSizeLimit, openDepth, nRecords, nEntries,
                 evicted, docRecorded>>

\* setLabel, whenever the editor calls it
SetLabel ==
  \E label \in Labels \cup {NULL} :
    /\ Running
    /\ label # m_label
    /\ m_label' = label
    /\ lastCall' = [op |-> "setLabel", result |-> NoError]
    /\ UNCHANGED <<m_undoStream, m_redoStream, m_enabled, m_diffCount,
                   m_diffSaved, doc, objects, undoSizeLimit, openDepth,
                   nRecords, nEntries, evicted, docRecorded, sinceMark>>

SetEnabled ==
  \E state \in BOOLEAN :
    /\ Running
    /\ state # m_enabled
    /\ m_enabled' = state
    /\ lastCall' = [op |-> "setEnabled", result |-> NoError]
    /\ UNCHANGED <<m_undoStream, m_redoStream, m_label, m_diffCount,
                   m_diffSaved, doc, objects, undoSizeLimit, openDepth,
                   nRecords, nEntries, evicted, docRecorded, sinceMark>>

\* Code outside the editor's recorded actions converts the image to another
\* type: the case chunk_image_invert's "Image type does not match" is for.
\* The image is converted at most once, from the type it was created with.
ConvertImage ==
  \E imgtype \in ImgTypes \ {doc.image.imgtype} :
    /\ Running
    /\ openDepth = 0
    /\ doc.image.imgtype = InitDoc.image.imgtype
    /\ doc' = [doc EXCEPT !.image.imgtype = imgtype]
    /\ lastCall' = [op |-> "convert", result |-> NoError]
    /\ UNCHANGED <<m_undoStream, m_redoStream, m_label, m_enabled,
                   m_diffCount, m_diffSaved, objects, undoSizeLimit,
                   openDepth, nRecords, nEntries, evicted, docRecorded,
                   sinceMark>>

\* Code outside the editor's recorded actions changes a live value between
\* two calls: the sprite is resized or the image is painted, and nothing is
\* recorded.
Drifted ==
  {[doc EXCEPT !.sprite = [width |-> width, height |-> height]] :
     width \in 1..MaxDim, height \in 1..MaxDim}
  \cup {[doc EXCEPT !.image.line = line] :
          line \in [1..NBands -> 0..MaxColor]}

Drift ==
  \E drifted \in Drifted \ {doc} :
    /\ Running
    /\ openDepth = 0
    /\ doc' = drifted
    /\ lastCall' = [op |-> "drift", result |-> NoError]
    /\ UNCHANGED <<m_undoStream, m_redoStream, m_label, m_enabled,
                   m_diffCount, m_diffSaved, objects, undoSizeLimit,
                   openDepth, nRecords, nEntries, evicted, docRecorded,
                   sinceMark>>

\* An object of the document is destroyed and taken out of the
\* ObjectsContainer; the chunks recorded for it stay on the streams.
RemoveObject ==
  \E obj \in ObjRefs :
    /\ Running
    /\ openDepth = 0
    /\ objects[obj] > 0
    /\ objects' = removeObject(objects, objects[obj])
    /\ lastCall' = [op |-> "removeObject", result |-> NoError]
    /\ UNCHANGED <<m_undoStream, m_redoStream, m_label, m_enabled,
                   m_diffCount, m_diffSaved, doc, undoSizeLimit, openDepth,
                   nRecords, nEntries, evicted, docRecorded, sinceMark>>

\* UndoHistory::UndoHistory, with a document and a configuration
\* a new UndoHistory of the document `document`, the configured
\* Options/UndoSizeLimit being one of `limits`
InitOf(document, limits) ==
  /\ m_undoStream = UndoStream
  /\ m_redoStream = UndoStream
  /\ m_label = NULL
  /\ m_enabled = TRUE
  /\ m_diffCount = 0
  /\ m_diffSaved = 0
  /\ doc = document
  /\ objects = [o \in ObjRefs |-> 0]
  /\ undoSizeLimit \in limits
  /\ openDepth = 0
  /\ lastCall = [op |-> "UndoHistory", result |-> NoError]
  /\ nRecords = 0
  /\ nEntries = 0
  /\ evicted = FALSE
  /\ docRecorded = document
  /\ sinceMark = NoMark

InitWith(document) == InitOf(document, 1..MaxLimitMiB)

Init == InitWith(InitDoc)

\* values of Options/UndoSizeLimit, in MiB, up to and beyond what an int
\* holds when multiplied by 1024*1024
ConfiguredLimits == {1, 2047, 2048, 4096}

InitConfigured == InitOf(InitDoc, ConfiguredLimits)

\* the tables the editor passes: the permutations of the indices, and the
\* tables that send the first two indices to one index
Mappings ==
  {mapping \in [PaletteIndices -> PaletteIndices] :
     \/ \A j \in PaletteIndices : \E c \in PaletteIndices : mapping[c] = j
     \/ mapping[0] = mapping[1]}

\* the editor remaps the palette indices of the frames frame_from..frame_to:
\* undo_remap_palette, then sprite->remapImages
RemapPalette ==
  \E mapping \in Mappings :
    \E frame_from \in 0..1 :
      \E frame_to \in frame_from..1 :
        /\ Cardinality({k \in DOMAIN m_undoStream.chunks :
              m_undoStream.chunks[k].type = UNDO_TYPE_REMAP_PALETTE})
             + Cardinality({k \in DOMAIN m_redoStream.chunks :
                 m_redoStream.chunks[k].type = UNDO_TYPE_REMAP_PALETTE})
             < MaxRemaps
        /\ Recorded("undo_remap_palette",
                    undo_remap_palette(This, undoSizeLimit, "sprite",
                                       frame_from, frame_to, mapping),
                    [doc EXCEPT !.indexed =
                       remapImages(@, frame_from, frame_to, mapping)])
        /\ UNCHANGED openDepth

\* remapping the palette, and replay
NextRemap ==
  \/ RemapPalette
  \/ DoUndo
  \/ DoRedo
  \/ ClearRedo

SpecRemap == Init /\ [][NextRemap]_vars

(***************************************************************************)
(* Documents with layers: the root folder holds one folder layer whose     *)
(* sub-layers are image layers with their cels, or empty folders.  The     *)
(* images are indexed, 1 x 1.                                               *)
(***************************************************************************)
LayerNames == {<<>>, <<66>>}
LayerFlags == {0, 3}
CelXs == {-1, 2}

\* the c-th cel of sub-layer n, with its image in the sprite's stock
CelOf(n, c, x) ==
  [id |-> 20 * n + c, frame |-> c - 1, image |-> 2 * n + c, x |-> x,
   y |-> c, opacity |-> 255,
   stock |-> [id |-> 20 * n + 10 + c, imgtype |-> IMAGE_INDEXED, w |-> 1,
              h |-> 1, mask_color |-> 0, line |-> <<<<c>>>>]]

SubLayers(n) ==
  {[id |-> 20 * n, name |-> name, flags |-> flags,
    type |-> GFXOBJ_LAYER_IMAGE, sprite |-> 1,
    cels |-> [c \in 1..cels |-> CelOf(n, c, x)], layers |-> <<>>] :
     name \in LayerNames, flags \in LayerFlags, cels \in 0..MaxCels,
     x \in CelXs}
  \cup
  {[id |-> 20 * n, name |-> name, flags |-> 3, type |-> GFXOBJ_LAYER_FOLDER,
    sprite |-> 1, cels |-> <<>>, layers |-> <<>>] : name \in LayerNames}

FolderOf(layers) ==
  [id |-> 100, name |-> <<70>>, flags |-> 3, type |-> GFXOBJ_LAYER_FOLDER,
   sprite |-> 1, cels |-> <<>>, layers |-> layers]

Subtrees ==
  {FolderOf(<<a>>) : a \in SubLayers(1)}
    \cup {FolderOf(<<a, b>>) : a \in SubLayers(1), b \in SubLayers(2)}

InitLayers ==
  \E subtree \in Subtrees :
    InitWith([InitDoc EXCEPT !.folder.layers = <<subtree>>])

\* the editor removes a layer of the root folder: undo_remove_layer, then
\* the layer is taken out of the folder and deleted
RemoveLayer ==
  \E k \in DOMAIN doc.folder.layers :
    /\ Recorded("undo_remove_layer", undo_remove_layer(This, undoSizeLimit, k),
                [doc EXCEPT !.folder = remove_layer(@, k)])
    /\ UNCHANGED openDepth

\* removing layers, and replay
NextLayers ==
  \/ UndoOpen
  \/ UndoClose
  \/ RemoveLayer
  \/ DoUndo
  \/ DoRedo
  \/ ClearRedo

SpecLayers == InitLayers /\ [][NextLayers]_vars

\* recording and replay
Next ==
  \/ UndoOpen
  \/ UndoClose
  \/ EditSize
  \/ EditImage
  \/ DoUndo
  \/ DoRedo
  \/ ClearRedo

Spec == Init /\ [][Next]_vars

\* recording and replay with the history enabled and disabled
NextEnabled ==
  \/ UndoOpen
  \/ UndoClose
  \/ EditSize
  \/ EditImage
  \/ DoUndo
  \/ DoRedo
  \/ ClearRedo
  \/ SetEnabled

SpecEnabled == Init /\ [][NextEnabled]_vars

\* recording and replay under small and large configured limits
SpecConfigured == InitConfigured /\ [][Next]_vars

\* recording and replay with markSavedState
NextSaved ==
  \/ UndoOpen
  \/ UndoClose
  \/ EditSize
  \/ EditImage
  \/ DoUndo
  \/ DoRedo
  \/ ClearRedo
  \/ MarkSavedState

SpecSaved == Init /\ [][NextSaved]_vars

\* recording and replay of a document that is also changed without a
\* recording
NextExternal ==
  \/ UndoOpen
  \/ UndoClose
  \/ EditSize
  \/ EditImage
  \/ DoUndo
  \/ DoRedo
  \/ ClearRedo
  \/ ConvertImage

SpecExternal == Init /\ [][NextExternal]_vars

\* the editor takes the image out of the stock and frees it:
\* undo_remove_image, then stock->removeImage and image_free
RemoveImage ==
  /\ getImage(doc, 0) # NULL
  /\ Recorded("undo_remove_image",
              undo_remove_image(This, undoSizeLimit, "stock", 0),
              [doc EXCEPT !.stock[1] = NULL, !.image = FreedImage])
  /\ UNCHANGED openDepth

\* painting and removing the image of the stock, and replay
NextStock ==
  \/ UndoOpen
  \/ UndoClose
  \/ EditImage
  \/ RemoveImage
  \/ DoUndo
  \/ DoRedo
  \/ ClearRedo

SpecStock == Init /\ [][NextStock]_vars

\* the editor flips a rectangle of the image: undo_flip, then the pixels of
\* the rectangle are mirrored
Flip ==
  \E x1 \in 0..(TileWidth - 1), y1 \in 0..(TileHeight - 1), horz \in BOOLEAN :
    \E x2 \in x1..(TileWidth - 1), y2 \in y1..(TileHeight - 1) :
      /\ nRecords < MaxFlips
      /\ Recorded("undo_flip",
                  undo_flip(This, undoSizeLimit, "tile", x1, y1, x2, y2, horz),
                  [doc EXCEPT !.tile =
                     PutFlipped(@, image_crop(@, x1, y1, x2 - x1 + 1,
                                              y2 - y1 + 1),
                                x1, y1, x2, y2, horz)])
      /\ UNCHANGED openDepth

\* flipping, and replay
NextFlip ==
  \/ Flip
  \/ DoUndo
  \/ DoRedo
  \/ ClearRedo

SpecFlip == Init /\ [][NextFlip]_vars

\* the editor shows another frame: sprite->setCurrentFrame, not recorded
SetCurrentFrame ==
  \E frame \in DOMAIN doc.palettes \ {doc.frame} :
    /\ Running
    /\ openDepth = 0
    /\ doc' = [doc EXCEPT !.frame = frame]
    /\ lastCall' = [op |-> "setCurrentFrame", result |-> NoError]
    /\ UNCHANGED <<m_undoStream, m_redoStream, m_label, m_enabled,
                   m_diffCount, m_diffSaved, objects, undoSizeLimit,
                   openDepth, nRecords, nEntries, evicted, docRecorded,
                   sinceMark>>

\* the editor gives the entries from..to of the current frame's palette the
\* colour `color`: undo_set_palette_colors, then palette->setEntry
SetPaletteColors ==
  \E from \in PaletteIndices, color \in 0..MaxEntry :
    \E to \in from..(PaletteSize - 1) :
      LET palette == getPalette(doc, getCurrentFrame(doc))
      IN /\ nRecords < MaxColorRecords
         /\ palette # NULL
         /\ Recorded("undo_set_palette_colors",
                     undo_set_palette_colors(This, undoSizeLimit, "sprite",
                                             palette, from, to),
                     setEntries(doc, palette, from,
                                [k \in 1..(to - from + 1) |-> color]))
         /\ UNCHANGED openDepth

\* the editor gives the second frame a palette of its own, of one colour:
\* sprite->setPalette, then undo_add_palette of the palette the sprite holds
AddPalette ==
  \E color \in 0..MaxEntry :
    LET palette == NewPalette(doc)
        made == [doc EXCEPT !.heap[palette] =
                   [frame |-> 1, entry |-> [c \in 1..PaletteSize |-> color]],
                            !.alive = @ \cup {palette},
                            !.palettes[1] = palette]
    IN /\ nRecords < MaxPaletteRecords
       /\ doc.palettes[1] = NULL
       /\ Recorded("undo_add_palette",
                   undo_add_palette([This EXCEPT !.doc = made], undoSizeLimit,
                                    "sprite", palette),
                   made)
       /\ UNCHANGED openDepth

\* the editor takes the second frame's palette away: undo_remove_palette,
\* then sprite->deletePalette
RemovePalette ==
  /\ nRecords < MaxPaletteRecords
  /\ doc.palettes[1] # NULL
  /\ Recorded("undo_remove_palette",
              undo_remove_palette(This, undoSizeLimit, "sprite",
                                  doc.palettes[1]),
              deletePalette(doc, doc.palettes[1]))
  /\ UNCHANGED openDepth

\* adding and removing a palette, and replay
NextPalettes ==
  \/ UndoOpen
  \/ UndoClose
  \/ AddPalette
  \/ RemovePalette
  \/ DoUndo
  \/ DoRedo
  \/ ClearRedo

SpecPalettes == Init /\ [][NextPalettes]_vars

\* editing the colours of the palettes frame by frame, and replay
NextColors ==
  \/ SetCurrentFrame
  \/ SetPaletteColors
  \/ DoUndo
  \/ DoRedo

SpecColors == Init /\ [][NextColors]_vars

\* recording and replay of a document whose live values drift
NextDrift ==
  \/ nRecords < MaxDriftRecords /\ EditData
  \/ nRecords < MaxDriftRecords /\ EditSize
  \/ nRecords < MaxDriftRecords /\ EditImage
  \/ DoUndo
  \/ DoRedo
  \/ Drift

SpecDrift == Init /\ [][NextDrift]_vars

\* recording and replay of a document whose objects can be destroyed
NextRemoved ==
  \/ UndoOpen
  \/ UndoClose
  \/ EditSize
  \/ EditImage
  \/ DoUndo
  \/ DoRedo
  \/ ClearRedo
  \/ RemoveObject

SpecRemoved == Init /\ [][NextRemoved]_vars

\* recording and replay with setLabel
NextLabel ==
  \/ UndoOpen
  \/ UndoClose
  \/ EditSize
  \/ EditImage
  \/ DoUndo
  \/ DoRedo
  \/ ClearRedo
  \/ SetLabel

SpecLabel == Init /\ [][NextLabel]_vars

\* recording and replay with allocations that fail
NextNoMemory ==
  \/ UndoOpen
  \/ UndoClose
  \/ EditSize
  \/ EditImage
  \/ DoUndo
  \/ DoRedo
  \/ ClearRedo
  \/ UndoOpenNoMemory
  \/ UndoCloseNoMemory
  \/ EditSizeNoMemory

SpecNoMemory == Init /\ [][NextNoMemory]_vars

\* recording with undo_data, replay, and recording calls whose arguments
\* violate a precondition
NextRejected ==
  \/ UndoOpen
  \/ UndoClose
  \/ EditData
  \/ DoUndo
  \/ DoRedo
  \/ ClearRedo
  \/ UndoDataBadSize
  \/ UndoImageBadRect

SpecRejected == Init /\ [][NextRejected]_vars

(***************************************************************************)
(* Vocabulary of the properties.  It is written without the engine's own   *)
(* walks (LevelStep, count_undo_groups, out_of_group), from the chunk      *)
(* types and the `entry` stamps alone.                                     *)
(***************************************************************************)
ReplayOps == {"doUndo", "doRedo"}

\* +1 for a group's opening delimiter, -1 for its closing one
Delimiter(chunk) ==
  CASE chunk.type = UNDO_TYPE_OPEN -> 1
    [] chunk.type = UNDO_TYPE_CLOSE -> -1
    [] OTHER -> 0

\* the sum of the delimiters of the first k chunks
RECURSIVE PrefixLevel(_, _)
PrefixLevel(chunks, k) ==
  IF k = 0 THEN 0 ELSE PrefixLevel(chunks, k - 1) + Delimiter(chunks[k])

\* the length of the top-level entry at the head of a non-empty stream: one
\* chunk, or a group up to the delimiter that matches its first one
HeadEntryLen(stream) ==
  LET n == Len(stream.chunks)
      ends == {k \in 1..n : PrefixLevel(stream.chunks, k) = 0}
  IN IF ends = {} THEN n
     ELSE CHOOSE k \in ends : \A j \in ends : k <= j

\* every delimiter of the stream has its match
OutOfGroup(stream) == PrefixLevel(stream.chunks, Len(stream.chunks)) = 0

\* the chunks of a stream that belong to top-level action e
ChunksOf(stream, e) == SelectSeq(stream.chunks, LAMBDA c : c.entry = e)

ChunksNotOf(stream, e) == SelectSeq(stream.chunks, LAMBDA c : c.entry # e)

Newest(stream) == CHOOSE e \in Entries(stream) : \A f \in Entries(stream) : f <= e

Oldest(stream) == CHOOSE e \in Entries(stream) : \A f \in Entries(stream) : e <= f

\* the streams a replay reads from and writes to, before and after the call
SourceBefore(op) == IF op = "doUndo" THEN m_undoStream ELSE m_redoStream
SourceAfter(op) == IF op = "doUndo" THEN m_undoStream' ELSE m_redoStream'
TargetBefore(op) == IF op = "doUndo" THEN m_redoStream ELSE m_undoStream
TargetAfter(op) == IF op = "doUndo" THEN m_redoStream' ELSE m_undoStream'

\* this step is a doUndo / doRedo call on a non-empty source stream
ReplayStep(op) ==
  /\ lastCall'.op = op
  /\ vars' # vars
  /\ ~empty(SourceBefore(op))

C2_LastInFirstOut ==
  [][ /\ ReplayStep("doUndo") =>
           LET e == Newest(m_undoStream)
           IN /\ m_undoStream'.chunks = ChunksNotOf(m_undoStream, e)
              /\ ChunksNotOf(m_redoStream', e) = m_redoStream.chunks
              /\ Len(ChunksOf(m_redoStream', e)) = Len(ChunksOf(m_undoStream, e))
              /\ \A f \in Entries(m_redoStream) : e < f
      /\ ReplayStep("doRedo") =>
           LET e == Oldest(m_redoStream)
           IN /\ m_redoStream'.chunks = ChunksNotOf(m_redoStream, e)
              /\ ChunksNotOf(m_undoStream', e) = m_undoStream.chunks
              /\ Len(ChunksOf(m_undoStream', e)) = Len(ChunksOf(m_redoStream, e))
              /\ \A f \in Entries(m_undoStream) : f < e
    ]_vars

\* C2 witness: a doRedo has just re-applied an action while an earlier one
\* is on the undo stream and a later one still on the redo stream.
C2_Witness ==
  /\ lastCall.op = "doRedo"
  /\ Cardinality(Entries(m_undoStream)) >= 2
  /\ canRedo(This)
  /\ \A e \in Entries(m_undoStream) : \A f \in Entries(m_redoStream) : e < f

(***************************************************************************)
(* C3 - a recording empties the redo stream                                *)
(***************************************************************************)
\* C3: immediately after any recording call (undo_open, undo_close or an
\* undo_<action>) the redo stream is empty and canRedo is false.
C3_RecordingClearsRedo ==
  lastCall.op \in RecordingOps => (empty(m_redoStream) /\ ~canRedo(This))

\* C3 witness: a recording has just completed after an earlier recording was
\* undone (fewer chunks on the undo stream than recordings made, and none
\* discarded), and the redo stream is empty.
C3_Witness ==
  /\ lastCall.op \in RecordingOps
  /\ nRecords >= 2
  /\ ~evicted
  /\ Len(m_undoStream.chunks) < nRecords
  /\ empty(m_redoStream)

(***************************************************************************)
(* C4 - group atomicity                                                    *)
(***************************************************************************)
\* C4 as stated: a doUndo/doRedo call that changed the live document leaves
\* no chunk of the action it replayed on the source stream and one inverse
\* for each of its chunks on the destination stream.
C4_GroupAtomicity ==
  [][ \A op \in ReplayOps :
        (ReplayStep(op) /\ doc' # doc) =>
          LET e == SourceBefore(op).chunks[1].entry
          IN /\ ChunksOf(SourceAfter(op), e) = <<>>
             /\ Len(ChunksOf(TargetAfter(op), e))
                  = Len(ChunksOf(SourceBefore(op), e))
    ]_vars

C6_MarkSavedState ==
  [][ lastCall'.op = "markSavedState" =>
        /\ isSavedState'
        /\ m_diffSaved' = m_diffCount
        /\ UNCHANGED <<m_undoStream, m_redoStream, m_label, m_enabled,
                       m_diffCount, doc, objects>>
    ]_vars

\* C6 witness: markSavedState has just been called with changes recorded
\* since construction and both an action to undo and one to redo.
C6_Witness ==
  /\ lastCall.op = "markSavedState"
  /\ m_diffSaved > 0
  /\ isSavedState
  /\ canUndo(This)
  /\ canRedo(This)

(***************************************************************************)
(* C7 - undoing back to the saved state                                    *)
(***************************************************************************)
\* C7 as stated: once the N top-level actions recorded since markSavedState
\* have been followed by N doUndo calls, isSavedState is true.
C7_UndoneToSavedAsStated ==
  (sinceMark.phase = "undo" /\ sinceMark.pending = 0) => isSavedState

\* C7, amended: the same, provided budget enforcement has discarded none of
\* the N actions from the undo stream before they were undone.
C7_UndoneToSaved ==
  (sinceMark.phase = "undo" /\ sinceMark.pending = 0 /\ ~sinceMark.lost)
    => isSavedState

\* C7 witness: after markSavedState at a non-zero diffCount, recordings (a
\* group among them, so more chunks than doUndo calls) have all been undone.
C7_Witness ==
  /\ lastCall.op = "doUndo"
  /\ sinceMark.phase = "undo"
  /\ sinceMark.pending = 0
  /\ ~sinceMark.lost
  /\ m_diffSaved > 0
  /\ Len(m_redoStream.chunks) >= 2
  /\ isSavedState

(***************************************************************************)
(* C8 - a recording clears the saved state                                 *)
(***************************************************************************)
\* C8 as stated: immediately after a recording call completes, isSavedState
\* is false.
C8_RecordingClearsSaved ==
  lastCall.op \in RecordingOps => ~isSavedState

(***************************************************************************)
(* C9 - the budget after updateUndo                                        *)
(***************************************************************************)
\* C9: after every recording call, if the undo stream is out of group then
\* it holds at most one top-level entry or its memSize is at most the
\* configured limit.
C9_Budget ==
  (lastCall.op \in RecordingOps /\ OutOfGroup(m_undoStream)) =>
     \/ Cardinality(Entries(m_undoStream)) <= 1
     \/ getMemSize(m_undoStream) <= undoSizeLimit * MiB

\* C9 witness: a recording has just completed out of group, chunks have been
\* discarded, and what is left is several entries, an image among them,
\* within the limit.
C9_Witness ==
  /\ lastCall.op \in RecordingOps
  /\ OutOfGroup(m_undoStream)
  /\ evicted
  /\ Cardinality(Entries(m_undoStream)) >= 2
  /\ getMemSize(m_undoStream) > MiB
  /\ getMemSize(m_undoStream) <= undoSizeLimit * MiB

(***************************************************************************)
(* C10 - no eviction inside an open group                                  *)
(***************************************************************************)
\* C10: a recording call that ends with a group still open removes no chunk
\* from the undo stream (the stream is the one before the call with the new
\* chunk at its head), whatever its memSize; a group can lose chunks only
\* from the call that records its outermost undo_close on.
C10_NoEvictionInGroup ==
  [][ (lastCall'.op \in RecordingOps /\ openDepth' > 0) =>
        /\ m_undoStream'.chunks # <<>>
        /\ Tail(m_undoStream'.chunks) = m_undoStream.chunks
    ]_vars

\* C10 witness: a recording has just completed inside an open group, with an
\* earlier top-level entry on the undo stream and memSize above the limit.
C10_Witness ==
  /\ lastCall.op \in RecordingOps
  /\ openDepth > 0
  /\ Cardinality(Entries(m_undoStream)) >= 2
  /\ getMemSize(m_undoStream) > undoSizeLimit * MiB

(***************************************************************************)
(* C11 - eviction is oldest first and spares the newest entry              *)
(***************************************************************************)
\* C11: after any recording call the undo stream is not empty, and it is the
\* stream before the call with the new chunk at its head and some of its
\* oldest top-level entries, each as a whole, removed from its tail: what
\* the stream holds is always the k >= 1 most recent top-level entries.
C11_OldestFirst ==
  [][ (lastCall'.op \in RecordingOps /\ vars' # vars) =>
        /\ canUndo(This)'
        /\ \E j \in 0..Len(m_undoStream.chunks) :
             LET kept == SubSeq(m_undoStream.chunks, 1, j)
                 dropped == SubSeq(m_undoStream.chunks, j + 1,
                                   Len(m_undoStream.chunks))
             IN /\ Tail(m_undoStream'.chunks) = kept
                /\ \A d \in DOMAIN dropped :
                     dropped[d].entry \notin Entries(m_undoStream')
    ]_vars

\* C11 witness: undo_close has just completed a group that alone exceeds
\* the limit; the entry recorded before it was discarded and the group, the
\* newest entry, is all the stream holds.
C11_Witness ==
  /\ lastCall.op = "undo_close"
  /\ openDepth = 0
  /\ evicted
  /\ Cardinality(Entries(m_undoStream)) = 1
  /\ Len(m_undoStream.chunks) >= 3
  /\ Len(m_undoStream.chunks) < nRecords
  /\ getMemSize(m_undoStream) > undoSizeLimit * MiB

(***************************************************************************)
(* C12 - memSize is the sum of the chunk sizes                             *)
(***************************************************************************)
\* the sum of the size fields of the first k chunks
RECURSIVE SizeSum(_, _)
SizeSum(chunks, k) ==
  IF k = 0 THEN 0 ELSE SizeSum(chunks, k - 1) + chunks[k].size

\* C12: in every reachable state the memSize of each of the two streams is
\* the sum of the size fields of the chunks it holds.
C12_MemSize ==
  /\ getMemSize(m_undoStream)
       = SizeSum(m_undoStream.chunks, Len(m_undoStream.chunks))
  /\ getMemSize(m_redoStream)
       = SizeSum(m_redoStream.chunks, Len(m_redoStream.chunks))

\* C12 witness: after recordings, a discard, an undo and a redo, both
\* streams hold chunks, an image chunk among those of the undo stream.
C12_Witness ==
  /\ lastCall.op = "doRedo"
  /\ evicted
  /\ canUndo(This)
  /\ canRedo(This)
  /\ getMemSize(m_undoStream) > MiB
  /\ getMemSize(m_redoStream) > 0

InverseKind(type) == type

\* the inverter applied, as runUndo applies it, to the chunk at the head of
\* stream `src` ("undo" or "redo"): the chunk, the destination stream before
\* and what the inverter leaves
HeadInverted(src, outcome) ==
  LET self == [This EXCEPT !.deref = outcome]
      dst == IF src = "undo" THEN "redo" ELSE "undo"
      popped == readChunk(self[src])
      read == [self EXCEPT ![src] = popped.stream, !.entry = popped.chunk.entry]
  IN [chunk |-> popped.chunk,
      before |-> read[dst],
      after |-> invert(setLabel(read, popped.chunk.label), dst, popped.chunk)[dst]]

\* the object the chunk refers to resolves, to an object of the recorded type
Resolves(chunk) ==
  CASE chunk.type = UNDO_TYPE_IMAGE ->
         /\ getObject(objects, chunk.image_id) # NULL
         /\ doc[getObject(objects, chunk.image_id)].imgtype = chunk.imgtype
    [] chunk.type = UNDO_TYPE_SET_SIZE ->
         getObject(objects, chunk.sprite_id) # NULL
    [] OTHER -> TRUE

\* the inverter appended exactly one chunk, of the inverse kind
OneInverse(inv) ==
  /\ inv.after.chunks # <<>>
  /\ Tail(inv.after.chunks) = inv.before.chunks
  /\ inv.after.chunks[1].type = InverseKind(inv.chunk.type)

DepthAfter(stream, i) ==
  PrefixLevel(stream.chunks, Len(stream.chunks))
    - PrefixLevel(stream.chunks, i - 1)

\* chunk i is the last recorded chunk of a top-level entry that is complete
\* (every entry but the one the editor has open)
EndsEntry(stream, i) ==
  IF i = 1 THEN openDepth = 0
  ELSE stream.chunks[i - 1].entry # stream.chunks[i].entry

\* C15 as stated: read from the oldest chunk to the newest, the depth of the
\* undo stream is never negative, and it is zero after every top-level
\* entry.
C15_WellFormed ==
  \A i \in DOMAIN m_undoStream.chunks :
    /\ DepthAfter(m_undoStream, i) >= 0
    /\ EndsEntry(m_undoStream, i) => DepthAfter(m_undoStream, i) = 0

(***************************************************************************)
(* C16: what count_undo_groups counts                                      *)
(***************************************************************************)
\* in recording order the depth #OPEN - #CLOSE is never negative
WellFormed(stream) ==
  \A i \in DOMAIN stream.chunks : DepthAfter(stream, i) >= 0

\* the positions, head to tail, where the running depth is back at 0
ZeroReturns(stream) ==
  {k \in DOMAIN stream.chunks : PrefixLevel(stream.chunks, k) = 0}

\* count_undo_groups is the number of returns to 0 and the number of
\* top-level entries
CountsEntries(stream) ==
  /\ count_undo_groups(stream) = Cardinality(ZeroReturns(stream))
  /\ count_undo_groups(stream) = Cardinality(Entries(stream))

\* C16 as stated: on a well-formed stream count_undo_groups returns the
\* number of times the running depth returns to 0 from head to tail, which
\* is the number of top-level entries.  Violated while a group is open: the
\* chunks recorded after its OPEN are counted one by one and the entries
\* older than the OPEN are not counted.
C16_GroupCountAsStated ==
  /\ WellFormed(m_undoStream) => CountsEntries(m_undoStream)
  /\ WellFormed(m_redoStream) => CountsEntries(m_redoStream)

\* C16: on a well-formed stream whose OPEN and CLOSE chunks all have their
\* match (no group is open), count_undo_groups returns the number of times
\* the running depth returns to 0 from head to tail, which is the number of
\* top-level entries, nested groups not counted separately.
C16_GroupCount ==
  /\ WellFormed(m_undoStream) /\ OutOfGroup(m_undoStream)
       => CountsEntries(m_undoStream)
  /\ WellFormed(m_redoStream) /\ OutOfGroup(m_redoStream)
       => CountsEntries(m_redoStream)

\* two top-level entries, the newer one a group with a group nested in it
C16_Witness ==
  /\ openDepth = 0
  /\ count_undo_groups(m_undoStream) = 2
  /\ Len(m_undoStream.chunks) >= 5
  /\ m_undoStream.chunks[1].type = UNDO_TYPE_CLOSE
  /\ m_undoStream.chunks[2].type = UNDO_TYPE_CLOSE

(***************************************************************************)
(* C17: the labels of the chunks of one group                              *)
(***************************************************************************)
\* a recording call made while a group is open: the chunk it records
\* belongs to that group (the group's own CLOSE included)
RecordsInGroup ==
  /\ lastCall'.op \in RecordingOps
  /\ nRecords' = nRecords + 1
  /\ openDepth > 0

\* C17 as stated: all chunks recorded inside one group carry the same label
\* string, for every value of the history's label.  Violated under the NULL
\* label, where each chunk is labelled with the name of its own kind.
C17_SameLabelAsStated ==
  \A i, j \in DOMAIN m_undoStream.chunks :
    m_undoStream.chunks[i].entry = m_undoStream.chunks[j].entry
      => m_undoStream.chunks[i].label = m_undoStream.chunks[j].label

\* C17: a chunk recorded inside a group carries the same label string as the
\* chunk of the group recorded before it, when the history's label is not
\* NULL and is still the one that chunk was recorded under; so all chunks of
\* a group recorded under one non-NULL label, unchanged from its OPEN to its
\* CLOSE, carry that label.
C17_SameLabel ==
  [][ (/\ RecordsInGroup
       /\ m_label # NULL
       /\ m_undoStream.chunks[1].label = m_label)
        => m_undoStream'.chunks[1].label = m_undoStream.chunks[1].label
    ]_vars

\* a group of three chunks recorded under the label "Draw"
C17_Witness ==
  /\ lastCall.op = "undo_close"
  /\ openDepth = 0
  /\ Len(m_undoStream.chunks) >= 3
  /\ m_undoStream.chunks[1].type = UNDO_TYPE_CLOSE
  /\ m_undoStream.chunks[3].type = UNDO_TYPE_OPEN
  /\ \A i \in 1..3 : /\ m_undoStream.chunks[i].label = "Draw"
                     /\ m_undoStream.chunks[i].entry
                          = m_undoStream.chunks[1].entry

(***************************************************************************)
(* C18: the name of an undone or redone entry                              *)
(***************************************************************************)
\* the label of the next entry to redo (undo) right after this doUndo
\* (doRedo) is the label the next entry to undo (redo) had right before it
LabelKept(op) ==
  IF op = "doUndo"
  THEN getNextRedoLabel(This)' = getNextUndoLabel(This)
  ELSE getNextUndoLabel(This)' = getNextRedoLabel(This)

\* the newest and the oldest chunk of the stream's head entry (a group's
\* CLOSE and OPEN) carry the same label
EndsShareLabel(stream) ==
  stream.chunks[HeadEntryLen(stream)].label = stream.chunks[1].label

\* C18 as stated: the label getNextRedoLabel returns right after a doUndo is
\* the label getNextUndoLabel returned right before it, and likewise for
\* doRedo.  Violated by a group recorded under the NULL label: "close"
\* before, "open" after.
C18_KeepsNameAsStated ==
  [][ \A op \in ReplayOps : ReplayStep(op) => LabelKept(op) ]_vars

\* C18: when the newest and the oldest chunk of the entry to undo (redo)
\* carry the same label, as for a single chunk or a group recorded under one
\* non-NULL label, the label getNextRedoLabel (getNextUndoLabel) returns
\* right after the doUndo (doRedo) is the label getNextUndoLabel
\* (getNextRedoLabel) returned right before it.
C18_KeepsName ==
  [][ \A op \in ReplayOps :
        ReplayStep(op) /\ EndsShareLabel(SourceBefore(op)) => LabelKept(op)
    ]_vars

\* a group recorded under "Draw" has just been undone: the entry to redo is
\* a group named "Draw"
C18_Witness ==
  /\ lastCall.op = "doUndo"
  /\ Len(m_redoStream.chunks) >= 3
  /\ m_redoStream.chunks[1].type = UNDO_TYPE_CLOSE
  /\ m_redoStream.chunks[3].type = UNDO_TYPE_OPEN
  /\ \A i \in 1..3 : m_redoStream.chunks[i].label = "Draw"

(***************************************************************************)
(* C19: a recording call whose allocation fails                            *)
(***************************************************************************)
\* this step is a recording call in which undo_chunk_new returned NULL
AllocationFailed ==
  /\ lastCall'.op \in RecordingOps
  /\ nRecords' = nRecords + 1
  /\ lastCall'.result \in {NoMemory, SIGSEGV}

\* C19: when the allocation of a chunk fails during a recording call the
\* call returns with no chunk appended and the engine state unchanged:
\* updateUndo is not run, so m_diffCount is not incremented and the redo
\* stream is not cleared (and the undo stream is not cut).
C19_NoMemoryNoChange ==
  [][ AllocationFailed =>
        /\ lastCall'.result = NoMemory
        /\ m_undoStream' = m_undoStream
        /\ m_redoStream' = m_redoStream
        /\ m_diffCount' = m_diffCount
    ]_vars

(***************************************************************************)
(* C20: replaying a chunk whose object was deleted                         *)
(***************************************************************************)
\* the ObjectId the chunk holds no longer resolves
Deleted(chunk) ==
  CASE chunk.type = UNDO_TYPE_IMAGE ->
         getObject(objects, chunk.image_id) = NULL
    [] chunk.type = UNDO_TYPE_SET_SIZE ->
         getObject(objects, chunk.sprite_id) = NULL
    [] OTHER -> FALSE

\* the positions of the head entry of the stream whose object was deleted
DeletedInHead(stream) ==
  {i \in 1..HeadEntryLen(stream) : Deleted(stream.chunks[i])}

\* the call ended without an error, it consumed the whole head entry of its
\* source stream, it wrote an inverse for every chunk but the deleted ones
\* and left the target stream with every delimiter matched
SkippedSilently(op) ==
  LET n == HeadEntryLen(SourceBefore(op))
      source == SourceBefore(op).chunks
  IN /\ lastCall'.result = NoError
     /\ SourceAfter(op).chunks = SubSeq(source, n + 1, Len(source))
     /\ Len(TargetAfter(op).chunks)
          = Len(TargetBefore(op).chunks) + n
              - Cardinality(DeletedInHead(SourceBefore(op)))
     /\ OutOfGroup(TargetAfter(op))

\* C20: when the object a chunk refers to has been deleted by the time the
\* chunk is inverted, the inverter skips the chunk silently and the doUndo
\* or doRedo still consumes the whole group, OPEN and CLOSE balanced.
C20_DeletedSkipped ==
  [][ \A op \in ReplayOps :
        ReplayStep(op) /\ DeletedInHead(SourceBefore(op)) # {}
          => SkippedSilently(op)
    ]_vars

(***************************************************************************)
(* C21: an encoder called with its precondition violated                   *)
(***************************************************************************)
\* the call raised a failure and left both streams and diffCount alone
RaisedNothingAppended(after) ==
  /\ after.raised # NoError
  /\ after.undo = m_undoStream
  /\ after.redo = m_redoStream
  /\ after.diffCount = m_diffCount

RECURSIVE Content(_)
Content(layer) ==
  [name |-> layer.name, flags |-> layer.flags, type |-> layer.type,
   cels |-> [c \in DOMAIN layer.cels |->
               [frame |-> layer.cels[c].frame, x |-> layer.cels[c].x,
                y |-> layer.cels[c].y, opacity |-> layer.cels[c].opacity,
                pixels |-> IF layer.cels[c].stock = NoImage THEN <<>>
                           ELSE layer.cels[c].stock.line]],
   layers |-> [c \in DOMAIN layer.layers |-> Content(layer.layers[c])]]

\* undo_remove_layer of the layer at position k, the layer removed, doUndo
RemovedAndUndone(k, outcome) ==
  LET recorded == undo_remove_layer(This, undoSizeLimit, k)
      removed == [recorded EXCEPT !.doc.folder = remove_layer(@, k)]
  IN doUndo([removed EXCEPT !.deref = outcome])

\* C22: recording undo_remove_layer for a layer of the root folder (a folder
\* with its sub-layers, cels and images), removing it and calling doUndo
\* re-creates the whole subtree: every layer of it comes back with the name,
\* flags, type, cel frame, position, opacity and image pixels it had.
C22_SubtreeRestored ==
  openDepth = 0 =>
    \A k \in DOMAIN doc.folder.layers, outcome \in NullDeref :
      LET undone == RemovedAndUndone(k, outcome)
      IN /\ undone.raised = NoError
         /\ Len(undone.doc.folder.layers) = Len(doc.folder.layers)
         /\ Content(undone.doc.folder.layers[k])
              = Content(doc.folder.layers[k])

(***************************************************************************)
(* C23: the inverse of a REMAP_PALETTE chunk                               *)
(***************************************************************************)
IsPermutation(mapping) ==
  \A j \in PaletteIndices : \E c \in PaletteIndices : mapping[c] = j

\* what inverting the chunk at the head of stream `src` leaves, as runUndo
\* inverts it, and what inverting the chunk this emits leaves
RemapInverted(src) ==
  LET dst == IF src = "undo" THEN "redo" ELSE "undo"
      popped == readChunk(This[src])
      read == [This EXCEPT ![src] = popped.stream,
                           !.entry = popped.chunk.entry]
      once == invert(setLabel(read, popped.chunk.label), dst, popped.chunk)
      emitted == readChunk(once[dst])
      twice == invert(setLabel([once EXCEPT ![dst] = emitted.stream],
                               emitted.chunk.label), src, emitted.chunk)
  IN [chunk |-> popped.chunk, once |-> once, emitted |-> emitted.chunk,
      again |-> readChunk(twice[src]).chunk]

\* C23: for a REMAP_PALETTE chunk whose mapping is a permutation of the
\* index range, the inverter builds a table with inverse[mapping[i]] = i for
\* all i, remaps the sprite with it and emits a REMAP_PALETTE chunk carrying
\* it with the same frame range; inverting the emitted chunk emits the
\* original mapping again.
C23_InverseMapping ==
  \A src \in {"undo", "redo"} :
    (/\ ~empty(This[src])
     /\ This[src].chunks[1].type = UNDO_TYPE_REMAP_PALETTE
     /\ IsPermutation(This[src].chunks[1].mapping)) =>
      LET inv == RemapInverted(src)
      IN /\ inv.emitted.type = UNDO_TYPE_REMAP_PALETTE
         /\ \A i \in PaletteIndices :
              inv.emitted.mapping[inv.chunk.mapping[i]] = i
         /\ inv.emitted.frame_from = inv.chunk.frame_from
         /\ inv.emitted.frame_to = inv.chunk.frame_to
         /\ inv.once.doc.indexed
              = remapImages(doc.indexed, inv.chunk.frame_from,
                            inv.chunk.frame_to, inv.emitted.mapping)
         /\ inv.again.mapping = inv.chunk.mapping

\* a cyclic mapping of three indices on frames 0..1 has been undone: the
\* next chunk to redo carries its inverse, which is not the mapping itself
C23_Witness ==
  /\ lastCall.op = "doUndo"
  /\ canRedo(This)
  /\ m_redoStream.chunks[1].type = UNDO_TYPE_REMAP_PALETTE
  /\ IsPermutation(m_redoStream.chunks[1].mapping)
  /\ m_redoStream.chunks[1].mapping
       # inverse_mapping(m_redoStream.chunks[1].mapping)
  /\ m_redoStream.chunks[1].frame_from = 0
  /\ m_redoStream.chunks[1].frame_to = 1

(***************************************************************************)
(* C24: symmetric kinds save the live value, then overwrite it             *)
(***************************************************************************)
\* what inverting the chunk at the head of stream `src` leaves, as runUndo
\* inverts it: the chunk, the chunk emitted and the document
SymmetricInverted(src) ==
  LET dst == IF src = "undo" THEN "redo" ELSE "undo"
      popped == readChunk(This[src])
      once == invert(setLabel([This EXCEPT ![src] = popped.stream],
                              popped.chunk.label), dst, popped.chunk)
  IN [chunk |-> popped.chunk, emitted |-> once[dst].chunks[1],
      doc |-> once.doc, raised |-> once.raised]

\* the emitted chunk holds the live value, the document the stored one
SavedThenOverwritten(inv) ==
  CASE inv.chunk.type = UNDO_TYPE_DATA ->
         /\ inv.emitted.type = UNDO_TYPE_DATA
         /\ inv.emitted.fieldData
              = FieldData(doc.sprite, inv.chunk.fieldOffset,
                          inv.chunk.fieldSize)
         /\ inv.doc = [doc EXCEPT !.sprite =
                         PutField(@, inv.chunk.fieldOffset,
                                  inv.chunk.fieldData)]
    [] inv.chunk.type = UNDO_TYPE_IMAGE ->
         /\ inv.emitted.type = UNDO_TYPE_IMAGE
         /\ inv.emitted.data = ImageRows(doc.image, inv.chunk.y, inv.chunk.h)
         /\ inv.doc = [doc EXCEPT !.image =
                         PutRows(@, inv.chunk.y, inv.chunk.h, inv.chunk.data)]
    [] inv.chunk.type = UNDO_TYPE_SET_SIZE ->
         /\ inv.emitted.type = UNDO_TYPE_SET_SIZE
         /\ inv.emitted.width = doc.sprite.width
         /\ inv.emitted.height = doc.sprite.height
         /\ inv.doc = [doc EXCEPT !.sprite.width = inv.chunk.width,
                                  !.sprite.height = inv.chunk.height]
    [] OTHER -> TRUE

\* C24: the inverter of a symmetric kind (DATA, IMAGE, SET_SIZE here) emits
\* a chunk holding the value live at inversion time and then overwrites the
\* live value with the stored one; doUndo followed at once by doRedo leaves
\* the live document as it was before the doUndo, also when the live value
\* is no longer the one the editor left when the chunk was recorded.
C24_LiveValueRoundTrip ==
  /\ \A src \in {"undo", "redo"} :
       ~empty(This[src]) =>
         LET inv == SymmetricInverted(src)
         IN inv.raised = NoError /\ SavedThenOverwritten(inv)
  /\ canUndo(This) =>
       LET redone == doRedo(doUndo(This))
       IN redone.raised = NoError /\ redone.doc = doc

\* every recorded change has been undone and redone, and the sprite is not
\* as the last recorded edit left it: the redo restored a value that drifted
C24_Witness ==
  /\ lastCall.op = "doRedo"
  /\ ~canRedo(This)
  /\ canUndo(This)
  /\ m_undoStream.chunks[1].type = UNDO_TYPE_DATA
  /\ doc.sprite # docRecorded.sprite

RECURSIVE UndoTimes(_, _)
UndoTimes(self, k) == IF k = 0 THEN self ELSE UndoTimes(doUndo(self), k - 1)

RECURSIVE RedoTimes(_, _)
RedoTimes(self, k) == IF k = 0 THEN self ELSE RedoTimes(doRedo(self), k - 1)

\* the history after k doUndo calls followed by k doRedo calls
UndoneRedone(k) == RedoTimes(UndoTimes(This, k), k)

\* the undo stream (kinds, labels, sizes, payloads, m_size) and diffCount,
\* hence isSavedState, are as before
UndoSideRestored(redone) ==
  /\ redone.raised = NoError
  /\ redone.undo = m_undoStream
  /\ redone.diffCount = m_diffCount
  /\ (redone.diffCount = m_diffSaved) = isSavedState

\* C26 as stated: after k doUndo calls and k doRedo calls, k at most the
\* number of top-level entries of the undo stream, the undo stream, diffCount
\* and isSavedState are as before and the redo stream is empty.
C26_RoundTripAsStated ==
  openDepth = 0 =>
    \A k \in 1..count_undo_groups(m_undoStream) :
      /\ UndoSideRestored(UndoneRedone(k))
      /\ empty(UndoneRedone(k).redo)

\* C26 amended: after k doUndo calls and k doRedo calls, k at most the
\* number of top-level entries of the undo stream, the undo stream, diffCount
\* and isSavedState are as before and the redo stream is as before: empty
\* when it was empty, otherwise holding the entries undone earlier.
C26_RoundTrip ==
  openDepth = 0 =>
    \A k \in 1..count_undo_groups(m_undoStream) :
      /\ UndoSideRestored(UndoneRedone(k))
      /\ UndoneRedone(k).redo = m_redoStream

\* a group and an older entry can be undone and redone while an entry undone
\* earlier waits on the redo stream, after a markSavedState
C26_Witness ==
  /\ openDepth = 0
  /\ count_undo_groups(m_undoStream) >= 2
  /\ m_undoStream.chunks[1].type = UNDO_TYPE_CLOSE
  /\ canRedo(This)
  /\ lastCall.op = "doRedo"
  /\ m_diffSaved # 0

(***************************************************************************)
(* C27: a doUndo / doRedo call whose inverter raises                       *)
(***************************************************************************)
\* C27: a doUndo or doRedo call in which an inverter raises UndoException
\* leaves both streams (contents and memSize) and diffCount as they were
\* before the call, the failed chunk still being the next one of its stream.
C27_RaiseLeavesHistory ==
  [][(lastCall'.op \in {"doUndo", "doRedo"}
        /\ lastCall'.result = UndoException) =>
       /\ m_undoStream' = m_undoStream
       /\ m_redoStream' = m_redoStream
       /\ m_diffCount' = m_diffCount]_vars

(***************************************************************************)
(* C28: what discardTail removes and what it leaves                        *)
(***************************************************************************)
\* the chunks of the undo stream that discardTail drops, oldest last
DiscardedByTail ==
  SubSeq(m_undoStream.chunks, Len(discardTail(This).undo.chunks) + 1,
         Len(m_undoStream.chunks))

\* C28: called as updateUndo calls it (the undo stream not empty and out of
\* any group), discardTail removes exactly the chunks of one whole top-level
\* entry from the tail of the undo stream and nothing else: the remaining
\* undo chunks and their order, the redo stream, the live document,
\* diffCount, the label and the objects are unchanged.
C28_DiscardTailFrame ==
  (canUndo(This) /\ out_of_group(m_undoStream)) =>
    LET after == discardTail(This)
        kept == after.undo.chunks
    IN /\ DiscardedByTail # <<>>
       /\ kept \o DiscardedByTail = m_undoStream.chunks
       /\ after.undo.size
            = m_undoStream.size
                - Sum([d \in DOMAIN DiscardedByTail |->
                         DiscardedByTail[d].size])
       /\ \A d \in DOMAIN DiscardedByTail :
            /\ DiscardedByTail[d].entry = DiscardedByTail[1].entry
            /\ \A c \in DOMAIN kept :
                 kept[c].entry # DiscardedByTail[d].entry
       /\ after = [This EXCEPT !.undo = after.undo, !.turns = after.turns]

\* chunks were evicted, and discardTail would now remove a whole group: the
\* oldest of at least two entries
C28_Witness ==
  /\ evicted
  /\ openDepth = 0
  /\ count_undo_groups(m_undoStream) >= 2
  /\ m_undoStream.chunks[Len(m_undoStream.chunks)].type = UNDO_TYPE_OPEN

(***************************************************************************)
(* C29: doUndo / doRedo with nothing to replay                             *)
(***************************************************************************)
\* C29: doUndo on an empty undo stream and doRedo on an empty redo stream
\* change nothing (both streams, diffCount, the label, the objects and the
\* live document are as before; diffSaved is not in reach of runUndo) and
\* raise no error.
C29_EmptyNoOp ==
  /\ empty(m_undoStream) =>
       doUndo(This) = This /\ doUndo(This).raised = NoError
  /\ empty(m_redoStream) =>
       doRedo(This) = This /\ doRedo(This).raised = NoError

\* doUndo was called with a label set and nothing on the undo stream: it
\* moved nothing to the redo stream
C29_Witness ==
  /\ lastCall.op = "doUndo"
  /\ lastCall.result = NoError
  /\ empty(m_undoStream)
  /\ empty(m_redoStream)
  /\ m_label # NULL
  /\ m_diffCount = 0

(***************************************************************************)
(* C30: a re-created object keeps its ObjectId                             *)
(***************************************************************************)
\* every IMAGE chunk on the streams of `self` resolves to the image the
\* stock holds
ImageChunksResolve(self) ==
  \A src \in {"undo", "redo"} :
    \A i \in DOMAIN self[src].chunks :
      self[src].chunks[i].type = UNDO_TYPE_IMAGE =>
        /\ getObject(self.objects, self[src].chunks[i].image_id) # NULL
        /\ getObject(self.objects, self[src].chunks[i].image_id)
             = getImage(self.doc, 0)

\* the history after the REMOVE_IMAGE chunk at the head of `src` is
\* inverted as runUndo inverts it
RemovalInverted(src) ==
  LET dst == IF src = "undo" THEN "redo" ELSE "undo"
      popped == readChunk(This[src])
  IN invert(setLabel([This EXCEPT ![src] = popped.stream],
                     popped.chunk.label), dst, popped.chunk)

Emitted ==
  LET target == IF lastCall.op = "doUndo" THEN m_redoStream ELSE m_undoStream
  IN IF empty(target) THEN <<>> ELSE ChunksOf(target, Newest(target))

\* the id resolves to an object that exists
RefersToLive(id) ==
  LET obj == getObject(objects, id)
  IN /\ obj # NULL
     /\ obj \in DOMAIN doc.heap => obj \in doc.alive

\* C31: every ObjectId stored in a chunk emitted by an inverter refers to an
\* object that is still alive when the inverter returns; the ADD_PALETTE
\* chunk emitted by inverting REMOVE_PALETTE carries the id of a palette
\* that still exists.
C31_EmittedIdsAlive ==
  lastCall.op \in ReplayOps /\ lastCall.result = NoError
    => \A k \in DOMAIN Emitted :
         /\ "sprite_id" \in DOMAIN Emitted[k]
              => RefersToLive(Emitted[k].sprite_id)
         /\ "palette_id" \in DOMAIN Emitted[k]
              => RefersToLive(Emitted[k].palette_id)

(***************************************************************************)
(* C32: the palette the SET_PALETTE_COLORS inverter writes into            *)
(***************************************************************************)
\* the heap after the entries from..to stored in the chunk were written into
\* the palette the sprite holds for the frame stored in the chunk
StoredEntriesWritten(chunk) ==
  LET palette == getPalette(doc, chunk.frame)
  IN [doc.heap EXCEPT ![palette].entry =
        [i \in DOMAIN @ |->
           IF chunk.from <= i - 1 /\ i - 1 <= chunk.to
           THEN read_raw_uint32(chunk.data, 4 * (i - 1 - chunk.from) + 1)
           ELSE @[i]]]

\* C32: the SET_PALETTE_COLORS inverter writes the stored entries from..to
\* into the palette attached to the frame stored in the chunk (the sprite's
\* current frame when the chunk was recorded), whatever the sprite's current
\* frame is at inversion time.
C32_WritesStoredFrame ==
  [][/\ lastCall'.op = "undo_set_palette_colors"
          => m_undoStream'.chunks[1].frame = getCurrentFrame(doc)
     /\ \A op \in ReplayOps :
          /\ ReplayStep(op)
          /\ SourceBefore(op).chunks[1].type = UNDO_TYPE_SET_PALETTE_COLORS
          => /\ lastCall'.result = NoError
             /\ doc'.heap = StoredEntriesWritten(SourceBefore(op).chunks[1])
             /\ doc'.frame = doc.frame
    ]_vars

\* a doUndo made while the sprite shows the second frame has given the
\* first frame's palette, edited while the first frame was shown, its
\* entries back
C32_Witness ==
  /\ lastCall.op = "doUndo"
  /\ lastCall.result = NoError
  /\ getCurrentFrame(doc) = 1
  /\ docRecorded.heap["palette0"] # InitDoc.heap["palette0"]
  /\ doc.heap["palette0"] = InitDoc.heap["palette0"]
  /\ doc.heap["palette1"] = InitDoc.heap["palette1"]
  /\ ~empty(m_redoStream)

(***************************************************************************)
(* C33: the frame stored in the inverse of a SET_PALETTE_COLORS chunk      *)
(***************************************************************************)
\* C33: the inverse chunk emitted by the SET_PALETTE_COLORS inverter stores
\* the same frame as the chunk being inverted, so doUndo followed by doRedo
\* modifies the palette of the same frame both times and restores its
\* entries.
C33_InverseKeepsFrame ==
  [][\A op \in ReplayOps :
       /\ ReplayStep(op)
       /\ SourceBefore(op).chunks[1].type = UNDO_TYPE_SET_PALETTE_COLORS
       /\ lastCall'.result = NoError
       => /\ TargetAfter(op).chunks[1].type = UNDO_TYPE_SET_PALETTE_COLORS
          /\ TargetAfter(op).chunks[1].frame = SourceBefore(op).chunks[1].frame
    ]_vars

(***************************************************************************)
(* C34: the label after a replay                                           *)
(***************************************************************************)
\* the last chunk a doUndo / doRedo call consumes: the one that ends the
\* entry at the head of the stream it reads
LastConsumed(op) ==
  SourceBefore(op).chunks[HeadEntryLen(SourceBefore(op))]

\* C34: doUndo/doRedo overwrite the history's current label with the label
\* of the last chunk they consumed; a chunk recorded afterwards without a new
\* setLabel call carries that label, not the label the caller set before the
\* undo and not the kind's canonical name.
C34_ReplayOverwritesLabel ==
  [][/\ \A op \in ReplayOps :
          ReplayStep(op) /\ lastCall'.result = NoError
            => m_label' = LastConsumed(op).label
     /\ lastCall'.op \in RecordingOps /\ m_label # NULL
          => /\ m_undoStream'.chunks[1].label = m_label
             /\ m_label' = m_label
    ]_vars

\* an image chunk recorded after a doUndo carries the label of the chunk the
\* doUndo consumed, the name of another kind
C34_Witness ==
  /\ lastCall.op = "undo_image"
  /\ m_undoStream.chunks[1].type = UNDO_TYPE_IMAGE
  /\ m_undoStream.chunks[1].label = UNDO_TYPE_SET_SIZE
  /\ m_label = UNDO_TYPE_SET_SIZE

(***************************************************************************)
(* C35: the enabled flag                                                   *)
(***************************************************************************)
\* the two results differ in the enabled flag at most
SameButEnabled(a, b) == [a EXCEPT !.enabled = TRUE] = [b EXCEPT !.enabled = TRUE]

\* what a call leaves when the flag has the other value
Otherwise(self) == [self EXCEPT !.enabled = ~@]

\* every call leaves the same streams, label, diffCount, objects and
\* document whatever the flag is
EnabledIgnored ==
  /\ SameButEnabled(doUndo(This), doUndo(Otherwise(This)))
  /\ SameButEnabled(doRedo(This), doRedo(Otherwise(This)))
  /\ SameButEnabled(undo_open(This, undoSizeLimit),
                    undo_open(Otherwise(This), undoSizeLimit))
  /\ SameButEnabled(undo_close(This, undoSizeLimit),
                    undo_close(Otherwise(This), undoSizeLimit))
  /\ SameButEnabled(undo_set_size(This, undoSizeLimit, "sprite"),
                    undo_set_size(Otherwise(This), undoSizeLimit, "sprite"))
  /\ SameButEnabled(undo_image(This, undoSizeLimit, "image", 0, 0,
                               doc.image.w, doc.image.h),
                    undo_image(Otherwise(This), undoSizeLimit, "image", 0, 0,
                               doc.image.w, doc.image.h))

\* C35: the enabled flag is only stored: setEnabled changes nothing but the
\* value isEnabled returns (initially true), and every recording call,
\* doUndo and doRedo behaves identically whether isEnabled is true or false
\* (recording while disabled still appends a chunk, increments diffCount and
\* clears redo).
C35_EnabledOnlyStored ==
  /\ m_enabled = TRUE
  /\ [][/\ EnabledIgnored
        /\ lastCall'.op = "setEnabled"
             => /\ m_enabled' # m_enabled
                /\ UNCHANGED <<m_undoStream, m_redoStream, m_label,
                               m_diffCount, m_diffSaved, doc, objects>>
        /\ lastCall'.op # "setEnabled" => m_enabled' = m_enabled
        /\ lastCall'.op \in RecordingOps /\ ~m_enabled
             => /\ ~empty(m_undoStream')
                /\ m_undoStream'.chunks[1].entry = nEntries'
                /\ Len(m_undoStream'.chunks) = Len(m_undoStream.chunks) + 1
                     \/ evicted'
                /\ m_diffCount' = m_diffCount + 1
                /\ empty(m_redoStream')
       ]_vars

\* a sprite size recorded while the history is disabled, with a redo stream
\* to clear: the chunk is the head of the undo stream
C35_Witness ==
  /\ ~m_enabled
  /\ lastCall.op = "undo_set_size"
  /\ m_undoStream.chunks[1].type = UNDO_TYPE_SET_SIZE
  /\ m_undoStream.chunks[1].entry = nEntries
  /\ Len(m_undoStream.chunks) >= 2
  /\ empty(m_redoStream)

(***************************************************************************)
(* C36: the loops of runUndo, discardTail and updateUndo end               *)
(***************************************************************************)
\* the sum of the delimiters of the last k chunks
SuffixLevel(chunks, k) ==
  PrefixLevel(chunks, Len(chunks))
    - PrefixLevel(chunks, Len(chunks) - k)

\* runUndo on the stream `src` of This: one chunk leaves the stream in
\* every turn, and the turns end at the first chunk that brings the level
\* back to 0, at the end of the stream, or with an exception
RunUndoEnds(state) ==
  LET src == SourceOf(state)
      chunks == This[src].chunks
      after == runUndo(This, state)
  IN /\ after.turns = Len(chunks) - Len(after[src].chunks)
     /\ after.turns <= Len(chunks)
     /\ ~empty(This[src]) => after.turns >= 1
     /\ \A k \in 1..(after.turns - 1) : PrefixLevel(chunks, k) # 0
     /\ \/ after.raised # NoError
        \/ empty(after[src])
        \/ PrefixLevel(chunks, after.turns) = 0

\* discardTail on the undo stream of This, likewise from the tail
DiscardTailEnds ==
  LET chunks == This.undo.chunks
      after == discardTail(This)
  IN /\ after.turns = Len(chunks) - Len(after.undo.chunks)
     /\ after.turns <= Len(chunks)
     /\ \A k \in 1..(after.turns - 1) : SuffixLevel(chunks, k) # 0
     /\ empty(after.undo) \/ SuffixLevel(chunks, after.turns) = 0

\* updateUndo after a chunk was pushed: at most groups - 1 discardTail calls,
\* and no more chunks dropped than the stream held
UpdateUndoEnds(pushed) ==
  LET groups == count_undo_groups(pushed.undo)
      after == updateUndo(pushed, undoSizeLimit)
  IN /\ after.discards <= (IF groups > 1 THEN groups - 1 ELSE 0)
     /\ after.turns = Len(pushed.undo.chunks) - Len(after.undo.chunks)

\* C36: every doUndo, doRedo and recording call terminates on any stream
\* contents, well formed or not: runUndo and discardTail remove one chunk
\* per iteration and stop when the depth returns to 0 or the stream is
\* empty, and the eviction loop of updateUndo performs at most groupCount-1
\* discardTail calls.
C36_LoopsEnd ==
  /\ RunUndoEnds(DO_UNDO)
  /\ RunUndoEnds(DO_REDO)
  /\ DiscardTailEnds
  /\ UpdateUndoEnds(chunk_open_new(This, "undo"))
  /\ UpdateUndoEnds(chunk_close_new(This, "undo"))
  /\ UpdateUndoEnds(chunk_set_size_new(This, "undo", "sprite"))
  /\ UpdateUndoEnds(chunk_image_new(This, "undo", "image", 0, 0, doc.image.w,
                                    doc.image.h))

\* an undo stream that is not well formed (a delimiter of a group is left
\* without its match): doUndo takes every chunk and ends at the empty stream
\* with the level not 0
C36_Witness ==
  /\ openDepth = 0
  /\ Len(m_undoStream.chunks) >= 2
  /\ ~OutOfGroup(m_undoStream)
  /\ doUndo(This).raised = NoError
  /\ doUndo(This).turns = Len(m_undoStream.chunks)
  /\ PrefixLevel(m_undoStream.chunks, Len(m_undoStream.chunks)) # 0

(***************************************************************************)
(* C37: the byte limit updateUndo compares memSize with                    *)
(***************************************************************************)
\* C37: the byte limit compared with memSize in updateUndo equals the
\* configured UndoSizeLimit in MiB multiplied by 2^20 for every non-negative
\* configured value, computed in the program's signed 32-bit int arithmetic
\* without wrapping.
C37_LimitInBytes ==
  undoSizeLimit >= 0 =>
    /\ undo_size_limit_of(undoSizeLimit) % MiB = 0
    /\ undo_size_limit_of(undoSizeLimit) \div MiB = undoSizeLimit

(***************************************************************************)
(* C38: the FLIP inverter                                                  *)
(***************************************************************************)
\* the image with the pixels of the chunk's rectangle mirrored along the
\* chunk's axis
Mirrored(image, chunk) ==
  [image EXCEPT !.pixel =
     [Y \in DOMAIN @ |->
        [X \in DOMAIN @[Y] |->
           IF /\ chunk.x1 <= X /\ X <= chunk.x2
              /\ chunk.y1 <= Y /\ Y <= chunk.y2
           THEN IF chunk.horz # 0 THEN @[Y][chunk.x1 + chunk.x2 - X]
                ELSE @[chunk.y1 + chunk.y2 - Y][X]
           ELSE @[Y][X]]]]

\* what inverting the chunk at the head of stream `src`, and then the chunk
\* that emitted, leaves
FlipInvertedTwice(src) ==
  LET dst == IF src = "undo" THEN "redo" ELSE "undo"
      popped == readChunk(This[src])
      once == invert(setLabel([This EXCEPT ![src] = popped.stream],
                              popped.chunk.label), dst, popped.chunk)
      back == readChunk(once[dst])
      twice == invert(setLabel([once EXCEPT ![dst] = back.stream],
                               back.chunk.label), src, back.chunk)
  IN [chunk |-> popped.chunk, emitted |-> back.chunk, once |-> once,
      twice |-> twice]

\* C38: the FLIP inverter emits a FLIP chunk with the same rectangle and the
\* same axis and mirrors the pixels of that rectangle along the axis;
\* inverting a FLIP chunk and then inverting the emitted chunk leaves every
\* pixel of the image as it was (flipping is self-inverse).
C38_FlipSelfInverse ==
  \A src \in {"undo", "redo"} :
    ~empty(This[src]) /\ This[src].chunks[1].type = UNDO_TYPE_FLIP =>
      LET inv == FlipInvertedTwice(src)
      IN /\ inv.once.raised = NoError
         /\ Len(inv.once[IF src = "undo" THEN "redo" ELSE "undo"].chunks)
              = Len(This[IF src = "undo" THEN "redo" ELSE "undo"].chunks) + 1
         /\ inv.emitted.type = UNDO_TYPE_FLIP
         /\ inv.emitted.image_id = inv.chunk.image_id
         /\ inv.emitted.imgtype = inv.chunk.imgtype
         /\ <<inv.emitted.x1, inv.emitted.y1, inv.emitted.x2, inv.emitted.y2>>
              = <<inv.chunk.x1, inv.chunk.y1, inv.chunk.x2, inv.chunk.y2>>
         /\ inv.emitted.horz = inv.chunk.horz
         /\ inv.once.doc = [doc EXCEPT !.tile = Mirrored(@, inv.chunk)]
         /\ inv.twice.doc = doc

\* a doUndo has mirrored the whole image back along the horizontal axis:
\* the image is the initial one again and the redo stream holds the FLIP
\* chunk of the same rectangle and axis
C38_Witness ==
  /\ lastCall.op = "doUndo"
  /\ doc.tile = InitDoc.tile
  /\ docRecorded.tile # InitDoc.tile
  /\ ~empty(m_redoStream)
  /\ m_redoStream.chunks[1].type = UNDO_TYPE_FLIP
  /\ m_redoStream.chunks[1].horz = 1
  /\ m_redoStream.chunks[1].x1 = 0
  /\ m_redoStream.chunks[1].x2 = TileWidth - 1
  /\ m_redoStream.chunks[1].y2 = TileHeight - 1
  /\ docRecorded.tile = Mirrored(doc.tile, m_redoStream.chunks[1])

(***************************************************************************)
(* C39: out_of_group and the depth over the whole stream                   *)
(***************************************************************************)
\* the chunks of the stream of the type
CountOf(stream, type) ==
  Cardinality({k \in DOMAIN stream.chunks : stream.chunks[k].type = type})

\* a walk of the inner loop started anywhere ends with a level that is not 0
\* only at the end of the stream
WalksEndAtZero(stream) ==
  \A it \in DOMAIN stream.chunks :
    LET walked == walkGroup(stream.chunks, it, 0)
    IN walked.level # 0 => walked.it = Len(stream.chunks) + 1

\* C39: out_of_group returns true exactly when the running depth over the
\* entire stream contents is zero, i.e. when the stream holds as many OPEN as
\* CLOSE chunks; resetting the level at the start of each outer iteration
\* never changes the result, because the inner loop only ends with a non-zero
\* level at the end of the stream.
C39_OutOfGroupIsDepthZero ==
  \A stream \in {m_undoStream, m_redoStream} :
    /\ out_of_group(stream)
         = (PrefixLevel(stream.chunks, Len(stream.chunks)) = 0)
    /\ out_of_group(stream)
         = (CountOf(stream, UNDO_TYPE_OPEN) = CountOf(stream, UNDO_TYPE_CLOSE))
    /\ WalksEndAtZero(stream)

\* inside an open group, with an action recorded in it and an older entry
\* below: the outer loop resets the level more than once and out_of_group
\* is false
C39_Witness ==
  /\ openDepth = 1
  /\ Len(m_undoStream.chunks) >= 3
  /\ m_undoStream.chunks[1].type \notin {UNDO_TYPE_OPEN, UNDO_TYPE_CLOSE}
  /\ m_undoStream.chunks[2].type = UNDO_TYPE_OPEN
  /\ ~out_of_group(m_undoStream)
  /\ walkGroup(m_undoStream.chunks, 1, 0).level = 0

(***************************************************************************)
(* C40: get_raw_layer_size and the bytes of a layer                        *)
(***************************************************************************)
\* the layers of the subtree of a layer, the layer included
RECURSIVE LayersIn(_)
LayersIn(layer) ==
  {layer} \cup UNION {LayersIn(layer.layers[c]) : c \in DOMAIN layer.layers}

\* the image layers of the subtree
ImageLayersIn(layer) ==
  Cardinality({l \in LayersIn(layer) : l.type = GFXOBJ_LAYER_IMAGE})

\* every cel of the subtree has its image, as write_raw_layer asserts
HasItsImages(layer) ==
  \A l \in LayersIn(layer) :
    \A c \in DOMAIN l.cels : l.cels[c].stock # NoImage

\* read_raw_layer, given the bytes write_raw_layer wrote, reads the layer
\* back from all of them and from no byte beyond
ConsumesWritten(layer) ==
  LET written == write_raw_layer(layer)
  IN /\ read_raw_layer(written, 1).layer = layer
     /\ ~read_raw_layer(written, 1).oob
     /\ read_raw_layer(SubSeq(written, 1, Len(written) - 1), 1).oob

\* C40: for an image layer, get_raw_layer_size is exactly one byte larger
\* than the number of bytes write_raw_layer writes and read_raw_layer
\* consumes for that layer (the unserialised blend-mode byte); for a folder
\* layer the excess equals the number of image layers in its subtree.
C40_SizeExcess ==
  \A top \in {doc.folder.layers[k] : k \in DOMAIN doc.folder.layers} :
    HasItsImages(top) =>
      \A layer \in LayersIn(top) :
        /\ layer.type = GFXOBJ_LAYER_IMAGE =>
             /\ get_raw_layer_size(layer) = Len(write_raw_layer(layer)) + 1
             /\ ConsumesWritten(layer)
        /\ layer.type = GFXOBJ_LAYER_FOLDER =>
             get_raw_layer_size(layer)
               = Len(write_raw_layer(layer)) + ImageLayersIn(layer)

\* undo_remove_layer has recorded a folder of two image layers, one of them
\* with MaxCels cels: the chunk's data is two bytes longer than what
\* write_raw_layer wrote into it
C40_Witness ==
  /\ lastCall.op = "undo_remove_layer"
  /\ m_undoStream.chunks[1].type = UNDO_TYPE_REMOVE_LAYER
  /\ \E subtree \in Subtrees :
       /\ ImageLayersIn(subtree) = 2
       /\ \E l \in LayersIn(subtree) : Len(l.cels) = MaxCels
       /\ m_undoStream.chunks[1].data = write_raw_layer(subtree) \o <<0, 0>>
       /\ m_undoStream.chunks[1].size
            = SizeofUndoChunkRemoveLayer + get_raw_layer_size(subtree)

=============================================================================
